---- MODULE Spec2Model ----
(***************************************************************************)
(* slowmo: the virtual time engine, the entity rate tracker with its poll  *)
(* loop, and the cross-frame synchronisation of the extension content      *)
(* script.                                                                 *)
(*                                                                         *)
(* Two builds of the engine exist in the repository: the library           *)
(* (src/unnamed/part_002, "lib") and the copy inlined in the extension     *)
(* content script (src/extension/content.js lines 1-653, "ext").  They     *)
(* differ in the handling of speed = Infinity and in the clamp of media    *)
(* rates; the variable build says which one a behaviour runs.              *)
(***************************************************************************)
EXTENDS Integers, Sequences, FiniteSets, TLC

(***************************************************************************)
(* JavaScript numbers.  A number x is the integer x * Unit (fixed point,   *)
(* exact for the dyadic values the model draws); Infinity and NaN are two  *)
(* values outside the range any finite computation of the model reaches.   *)
(* All numbers of the model are >= 0, so -Infinity never arises.           *)
(***************************************************************************)
Unit == 8 * 8

\* the value Infinity of a JavaScript number
Infinity == 1000000000

NaN == 0 - Infinity

IsFinite(x) == x # Infinity /\ x # NaN

\* a * b
Mul(a, b) ==
    IF a = NaN \/ b = NaN THEN NaN
    ELSE IF a = Infinity \/ b = Infinity
         THEN (IF a = 0 \/ b = 0 THEN NaN ELSE Infinity)
         ELSE (a * b) \div Unit

\* a + b
Add(a, b) ==
    IF a = NaN \/ b = NaN THEN NaN
    ELSE IF a = Infinity \/ b = Infinity THEN Infinity
    ELSE a + b

\* a - b, for a finite b
Sub(a, b) ==
    IF a = NaN \/ b = NaN THEN NaN
    ELSE IF a = Infinity THEN Infinity
    ELSE a - b

\* a !== b
StrictNeq(a, b) == a = NaN \/ b = NaN \/ a # b

\* a <= b  (false when either is NaN)
Leq(a, b) == a # NaN /\ b # NaN /\ a <= b

\* x || 1
OrOne(x) == IF x = 0 \/ x = NaN THEN Unit ELSE x

\* Math.min(a, b), Math.max(a, b)
MathMin(a, b) == IF a = NaN \/ b = NaN THEN NaN ELSE IF a <= b THEN a ELSE b

MathMax(a, b) == IF a = NaN \/ b = NaN THEN NaN ELSE IF a >= b THEN a ELSE b

\* the multiplier the ext build uses for timestamps at speed Infinity
InfinitySpeed == 1000 * Unit

\* the range media rates are clamped to by the ext build: 0.0625 .. 16
MediaMinRate == Unit \div 16

MediaMaxRate == 16 * Unit

(***************************************************************************)
(* Bounds and input sets.                                                  *)
(***************************************************************************)
MaxTime == 3

MaxCalls == 2

\* entities of each kind that appear in a document after it was loaded
MaxNew == 1

Builds == {"lib", "ext"}

\* multipliers passed to setSpeed: 0 is pause; 1/32 and 32 take a media rate
\* out of the range the extension clamps it to
Half == Unit \div 2

\* multipliers of the media specification
MediaSpeeds == {0, Unit \div 32, Half, 32 * Unit, Infinity}

\* multipliers of the animation specification
AnimSpeeds == {0, Half, Unit, 2 * Unit, Infinity}

\* multipliers of the clock specification
ClockSpeeds == {0, Half, 2 * Unit, Infinity}

\* multipliers sent down the frame tree
SyncSpeeds == {0, Unit \div 32, 2 * Unit}

\* developer rates of the entities in the framed documents
SyncRates == {Half, 2 * Unit}

\* rates a page gives its animations and media elements
PageRates == {Half, Unit, 2 * Unit}

\* documents: the top document 0, its child frame 1, the frame 2 nested in 1
Top == 0

Docs == {0, 1, 2}

Parent(d) == d - 1

Children(d) == {c \in Docs : c # Top /\ Parent(c) = d}

VARIABLES
    build,      \* "lib" or "ext"
    now,        \* the real clock (the native performance.now)
    eng,        \* per document: currentSpeed, isPaused, virtualTime, lastRealTime, pauseTime
    anims,      \* per document: its animations (document.getAnimations()) with their tracking entry
    media,      \* per document: its video/audio elements with their tracking entry
    tree,       \* the documents of the page: the top document and the frames attached
    inbox,      \* per document: the message events queued for its window
    rafQueue,   \* callbacks pending in the native frame scheduler through the patched rAF
    dial,       \* the dial of the top document: the speed its angle stands for, and paused
    loading,    \* the frames attached to the page whose load event has not fired yet
    frame,      \* the real frame in progress: the callbacks whose wrappers have yet to
                \* run in it; and history: the callbacks registered by the page and not
                \* yet invoked, oldest first, and the last invocation
    api,        \* history of the public API: the last non-zero multiplier set, and the
                \* last timer request of the page with the delay handed on
    dialInstance, \* the singleton of the dial API (null, or the element), with
                \* history: the dial elements in document.body, the last return value
    realm,      \* the window of one realm: the wrapper layers standing on its frame
                \* scheduler and on its clock, the injection flag, and the copies of
                \* the engine loaded in it with what each captured at installation
    sync,       \* the startup timer of the top document (pending or not), and history
                \* of the sync protocol: the top-level calls made and the messages
                \* each document's listener handled
    obs,        \* history: the last value handed out by the virtual clock, and whether a
                \* speed-changing call was made since
    last        \* history: the last operation and what it saw

vars == <<build, now, eng, anims, media, tree, inbox, rafQueue, dial, loading, frame,
          api, dialInstance, realm, sync, obs, last>>

(***************************************************************************)
(* The virtual clock.                                                      *)
(***************************************************************************)
\* mutant of getVirtualTime: a paused clock creeps at the floor speed 1
getVirtualTimeCreeping(e, bld, realTime) ==
    Add(e.virtualTime, Mul(Sub(realTime, e.lastRealTime), OrOne(e.currentSpeed)))

getVirtualTime(e, bld, realTime) ==
    IF e.isPaused THEN e.pauseTime
    ELSE LET elapsed == Sub(realTime, e.lastRealTime)
             effectiveSpeed == IF bld = "ext" /\ e.currentSpeed = Infinity
                               THEN InfinitySpeed ELSE e.currentSpeed
         IN  Add(e.virtualTime, Mul(elapsed, effectiveSpeed))

\* install(): virtual time starts at the real time of installation
install(realNow) ==
    [currentSpeed |-> Unit, isPaused |-> FALSE, virtualTime |-> realNow,
     lastRealTime |-> realNow, pauseTime |-> 0, polling |-> TRUE]

\* setSpeed up to the reconciliation: the checkpoint and the new speed
checkpoint(e, bld, speed, realNow) ==
    LET vt == getVirtualTime(e, bld, realNow)
    IN  [currentSpeed |-> speed, isPaused |-> (speed = 0), virtualTime |-> vt,
         lastRealTime |-> realNow,
         pauseTime |-> IF speed = 0 THEN vt ELSE e.pauseTime,
         polling |-> e.polling]

\* play() of the library up to its call of setSpeed
playResume(e, realNow) ==
    IF e.isPaused THEN [e EXCEPT !.lastRealTime = realNow, !.isPaused = FALSE] ELSE e

(***************************************************************************)
(* The entity rate tracker.  An animation is a record                      *)
(*   excluded      its target has an ancestor-or-self with the opt-out     *)
(*   playbackRate, playState, unfinishable (finish() throws)               *)
(*   tracked, original, applied      its entry of trackedAnimations        *)
(* and a media element a record                                            *)
(*   excluded, playbackRate, paused, hasDuration, atEnd                    *)
(*   tracked, original, applied, wasPaused   its entry of trackedMedia.    *)
(* History fields, written by the model only:                              *)
(*   rate0      the rate it was created with                               *)
(*   log        the calls and writes the engine made on it in the last pass*)
(*   pauser     who paused it last while it is paused: engine, page, none  *)
(*   pageWrote  a page script assigned its rate after its creation         *)
(*   infPass    a pass at speed Infinity has handled it                    *)
(*   pending    the rate a page wrote since the last pass, when it differs *)
(*              from original * speed at a finite speed > 0, else None     *)
(*   detect     pending as it stood when the last pass began               *)
(*   owed       engine pause() calls of a media element during an engine   *)
(*              pause that no engine play() has answered yet               *)
(*   unowed     the engine called play() on a media element with owed = 0  *)
(*   heldAtPause  a media element was paused when the engine pause began   *)
(*   enginePaused the engine paused it during the current engine pause     *)
(***************************************************************************)
None == 0 - 1

\* mutant of isExcluded: the opt-out marker is not looked at
isExcludedNever(ent) == FALSE

\* the opt-out check: closest('[data-slowmo-exclude]') of the target / element
isExcluded(ent) == ent.excluded

\* mutant of developerRate: the current rate is always taken as the developer's
developerRateCurrent(playbackRate, original, applied) == playbackRate

\* the developer's rate of a tracked entity: the current rate when it is not
\* the one the engine applied last
developerRate(playbackRate, original, applied) ==
    IF StrictNeq(playbackRate, applied) THEN playbackRate ELSE original

\* mutant of resumes: every paused media element is resumed, as animations are
resumesAnyPaused(m) == m.paused

\* whether the engine resumes a media element when it is not paused
resumes(m) == m.wasPaused

\* one iteration of the loop of updateWebAnimations
updateAnimation(a, e, bld) ==
    LET b == [a EXCEPT !.log = {}, !.detect = a.pending, !.pending = None]
    IN
    IF isExcluded(a) THEN [a EXCEPT !.log = {}]
    ELSE IF bld = "ext" /\ e.currentSpeed = Infinity
    THEN \* finish(), or the fastest rate when finish() throws
         IF a.unfinishable
         THEN [b EXCEPT !.playbackRate = MediaMaxRate, !.log = {"finish", "rate"},
                        !.infPass = TRUE]
         ELSE [b EXCEPT !.playState = "finished", !.log = {"finish"},
                        !.pauser = "none", !.infPass = TRUE]
    ELSE
    LET t == IF ~b.tracked
             THEN \* new animation: its rate is the developer's
                  LET applied == Mul(b.playbackRate, e.currentSpeed)
                  IN  [b EXCEPT !.tracked = TRUE, !.original = b.playbackRate,
                                !.applied = applied, !.playbackRate = applied,
                                !.log = {"rate"}]
             ELSE LET original == developerRate(b.playbackRate, b.original, b.applied)
                      newApplied == Mul(original, e.currentSpeed)
                  IN  IF StrictNeq(b.playbackRate, newApplied)
                      THEN [b EXCEPT !.original = original, !.playbackRate = newApplied,
                                     !.applied = newApplied, !.log = {"rate"}]
                      ELSE [b EXCEPT !.original = original]
         u == [t EXCEPT !.infPass = t.infPass \/ e.currentSpeed = Infinity]
    IN  IF e.isPaused
        THEN IF u.playState = "running"
             THEN [u EXCEPT !.playState = "paused", !.pauser = "engine",
                            !.log = u.log \cup {"pause"}]
             ELSE u
        ELSE IF u.playState = "paused"
             THEN [u EXCEPT !.playState = "running", !.pauser = "none",
                            !.log = u.log \cup (IF u.pauser = "page"
                                                THEN {"play", "playForeign"}
                                                ELSE {"play"})]
             ELSE u

\* the iteration over animation a ends in an exception: a is an animation on
\* which the engine's writes and calls throw, and the iteration makes one
\* (a finish() that throws is caught by the extension, one that works is none)
animationThrows(a, e, bld) ==
    a.throws /\ (updateAnimation(a, e, bld).log \ {"finish"}) # {}

\* the animation on which the pass threw: its entry as far as it was written,
\* its rate and play state as they were
thrownAnimation(a, e, bld) ==
    LET u == updateAnimation(a, e, bld)
    IN  [u EXCEPT !.playbackRate = a.playbackRate, !.playState = a.playState,
                  !.pauser = a.pauser,
                  !.applied = IF a.tracked THEN a.applied ELSE u.applied,
                  !.log = {"throw"}]

\* updateWebAnimations over the animations of one document, in order; an
\* exception ends the loop
updateWebAnimations(as, e, bld) ==
    [i \in DOMAIN as |->
        IF \E j \in 1..(i - 1) : animationThrows(as[j], e, bld) THEN as[i]
        ELSE IF animationThrows(as[i], e, bld) THEN thrownAnimation(as[i], e, bld)
        ELSE updateAnimation(as[i], e, bld)]

\* the rate written to a media element
mediaRate(original, speed, bld) ==
    IF bld = "ext"
    THEN MathMin(MediaMaxRate, MathMax(MediaMinRate, Mul(original, speed)))
    ELSE Mul(original, speed)

\* one iteration of the forEach of updateMediaElements; began says that this
\* pass is the first one of an engine pause
updateMedia(m, e, bld, began) ==
    LET b == [m EXCEPT !.log = {}, !.detect = m.pending, !.pending = None,
                       !.heldAtPause = IF began THEN m.paused ELSE m.heldAtPause,
                       !.enginePaused = IF began THEN FALSE ELSE m.enginePaused]
    IN
    IF isExcluded(m) THEN [m EXCEPT !.log = {}]
    ELSE IF bld = "ext" /\ e.currentSpeed = Infinity
    THEN \* jump to the end and pause
         IF b.hasDuration
         THEN [b EXCEPT !.atEnd = TRUE, !.paused = TRUE, !.log = {"seek", "pause"},
                        !.infPass = TRUE]
         ELSE [b EXCEPT !.infPass = TRUE]
    ELSE
    LET t == IF ~b.tracked
             THEN [b EXCEPT !.tracked = TRUE, !.original = b.playbackRate,
                            !.applied = Mul(b.playbackRate, e.currentSpeed),
                            !.wasPaused = FALSE]
             ELSE IF ~e.isPaused
                  THEN [b EXCEPT !.original =
                                    developerRate(b.playbackRate, b.original, b.applied)]
                  ELSE b
         u == [t EXCEPT !.infPass = t.infPass \/ e.currentSpeed = Infinity]
    IN  IF e.isPaused
        THEN IF ~u.paused /\ ~u.wasPaused
             THEN [u EXCEPT !.wasPaused = TRUE, !.paused = TRUE, !.log = {"pause"},
                            !.owed = u.owed + 1, !.enginePaused = TRUE]
             ELSE u
        ELSE LET v == IF resumes(u)
                      THEN [u EXCEPT !.wasPaused = FALSE, !.paused = FALSE,
                                     !.log = {"play"},
                                     !.unowed = u.unowed \/ u.owed = 0,
                                     !.owed = IF u.owed = 0 THEN 0 ELSE u.owed - 1]
                      ELSE u
                 newApplied == mediaRate(v.original, e.currentSpeed, bld)
             IN  IF StrictNeq(v.playbackRate, newApplied)
                 THEN [v EXCEPT !.playbackRate = newApplied, !.applied = newApplied,
                                !.log = v.log \cup {"rate"}]
                 ELSE v

\* the iteration over media element m ends in an exception
mediaThrows(m, e, bld, began) ==
    m.throws /\ updateMedia(m, e, bld, began).log # {}

\* the media element on which the pass threw
thrownMedia(m, e, bld, began) ==
    LET u == updateMedia(m, e, bld, began)
    IN  [u EXCEPT !.playbackRate = m.playbackRate, !.paused = m.paused,
                  !.atEnd = m.atEnd, !.owed = m.owed, !.unowed = m.unowed,
                  !.enginePaused = m.enginePaused,
                  !.applied = IF m.tracked THEN m.applied ELSE u.applied,
                  !.log = {"throw"}]

\* updateMediaElements over the media elements of one document, in order; an
\* exception ends the forEach
updateMediaElements(ms, e, bld, began) ==
    [i \in DOMAIN ms |->
        IF \E j \in 1..(i - 1) : mediaThrows(ms[j], e, bld, began) THEN ms[i]
        ELSE IF mediaThrows(ms[i], e, bld, began) THEN thrownMedia(ms[i], e, bld, began)
        ELSE updateMedia(ms[i], e, bld, began)]

\* an exception escaped the last pass over document d
Threw(d) ==
    \/ \E i \in DOMAIN anims[d] : "throw" \in anims[d][i].log
    \/ \E i \in DOMAIN media[d] : "throw" \in media[d][i].log

\* mutant of reconcile: the state of the engine changes, no entity is visited
reconcileNothing(d, e, began) == UNCHANGED <<anims, media>>

\* updateWebAnimations(); updateMediaElements(): the second is not reached
\* when the first throws
reconcile(d, e, began) ==
    /\ anims' = [anims EXCEPT ![d] = updateWebAnimations(@, e, build)]
    /\ media' = IF \E i \in DOMAIN anims[d] : animationThrows(anims[d][i], e, build)
                THEN [media EXCEPT ![d] = [i \in DOMAIN @ |-> [@[i] EXCEPT !.log = {}]]]
                ELSE [media EXCEPT ![d] = updateMediaElements(@, e, build, began)]

(***************************************************************************)
(* Cross-frame messages.                                                   *)
(***************************************************************************)
\* mutant of broadcastToFrames: only the top document reaches its iframes
broadcastTopOnly(box, d, speed, paused) ==
    [c \in Docs |-> IF c \in tree /\ c # Top /\ Parent(c) = d /\ d = Top
                    THEN Append(box[c], [speed |-> speed, paused |-> paused])
                    ELSE box[c]]

\* broadcastToFrames: one message to the window of every iframe of document d
broadcastToFrames(box, d, speed, paused) ==
    [c \in Docs |-> IF c \in tree /\ c # Top /\ Parent(c) = d
                    THEN Append(box[c], [speed |-> speed, paused |-> paused])
                    ELSE box[c]]

(***************************************************************************)
(* History of the values the virtual clock handed out.                     *)
(***************************************************************************)
NoObs == [kind |-> "none", at |-> 0, val |-> 0, since |-> FALSE]

\* a value val handed out at real time now
Observe(kind, val) == [kind |-> kind, at |-> now, val |-> val, since |-> FALSE]

\* a speed-changing call was made
Called == [obs EXCEPT !.since = TRUE]

(***************************************************************************)
(* Operations.                                                             *)
(***************************************************************************)
\* setSpeed(speed) in document d, entered with engine state e0: checkpoint,
\* then one reconciliation pass; the top document of the extension also
\* broadcasts (the wrapper of setSpeed)
engineSetSpeed(d, e0, speed) ==
    LET e1 == checkpoint(e0, build, speed, now)
        began == e1.isPaused /\ ~eng[d].isPaused
    IN  /\ eng' = [eng EXCEPT ![d] = e1]
        /\ reconcile(d, e1, began)

\* history, where it is kept: the last two speed-changing calls of the public
\* API, the argument of the last one when it was setSpeed, and the last
\* non-zero multiplier a caller passed to setSpeed (or set through reset)
remember(call, speed) ==
    IF ~api.rec THEN api
    ELSE [api EXCEPT !.prev = api.call, !.call = call,
                     !.arg = IF call = "setSpeed" THEN speed ELSE 0,
                     !.nonZero = IF call \in {"setSpeed", "reset"} /\ speed # 0
                                 THEN speed ELSE @]

\* mutant of resumeSpeed: the fallback to 1 is left out
resumeSpeedCurrent(e) == e.currentSpeed

\* the speed play() resumes at: currentSpeed || 1
resumeSpeed(e) == OrOne(e.currentSpeed)

\* mutant of getSpeed: a paused engine reports the speed it will resume at
getSpeedOrOne(e) == OrOne(e.currentSpeed)

\* getSpeed()
getSpeed(e) == e.currentSpeed

\* the last operation: its kind (call: setSpeed, pause, play or reset; frame;
\* page; tick; read; request), its document, and whether the engine of that
\* document was paused when it began
Call(op, d) == [op |-> op, doc |-> d, wasPaused |-> eng[d].isPaused]

isTopFrameAlways(d) == TRUE

isTopFrame(d) == d = Top

SetSpeed(d, speed) ==
    /\ d \in tree
    /\ \A c \in Children(d) \cap tree : Len(inbox[c]) < MaxCalls
    /\ engineSetSpeed(d, eng[d], speed)
    /\ inbox' = IF build = "ext" /\ isTopFrame(d) /\ ~Threw(d)'
                THEN broadcastToFrames(inbox, d, speed, speed = 0) ELSE inbox
    /\ sync' = IF sync.rec /\ d = Top THEN [sync EXCEPT !.calls = @ + 1] ELSE sync
    /\ obs' = Called
    /\ api' = remember("setSpeed", speed)
    /\ last' = Call("call", d)
    /\ UNCHANGED <<build, realm, dialInstance, dial, loading, frame, now, tree, rafQueue>>

\* pause() of the library
Pause ==
    /\ build = "lib"
    /\ engineSetSpeed(Top, eng[Top], 0)
    /\ obs' = Called
    /\ api' = remember("pause", 0)
    /\ last' = Call("call", Top)
    /\ UNCHANGED <<build, realm, sync, dialInstance, dial, loading, frame, now, tree, inbox, rafQueue>>

\* play() of the library
Play ==
    /\ build = "lib"
    /\ engineSetSpeed(Top, playResume(eng[Top], now), resumeSpeed(eng[Top]))
    /\ obs' = Called
    /\ api' = remember("play", 0)
    /\ last' = Call("call", Top)
    /\ UNCHANGED <<build, realm, sync, dialInstance, dial, loading, frame, now, tree, inbox, rafQueue>>

\* reset() of the library
Reset ==
    /\ build = "lib"
    /\ engineSetSpeed(Top, eng[Top], Unit)
    /\ obs' = Called
    /\ api' = remember("reset", Unit)
    /\ last' = Call("call", Top)
    /\ UNCHANGED <<build, realm, sync, dialInstance, dial, loading, frame, now, tree, inbox, rafQueue>>

\* real time passes
Tick ==
    /\ now < MaxTime * Unit
    /\ now' = now + Unit
    /\ last' = Call("tick", Top)
    /\ UNCHANGED <<build, realm, sync, api, dialInstance, dial, loading, frame, eng, anims, media, tree, inbox, rafQueue, obs>>

\* the page reads the patched performance.now()
Read ==
    /\ obs' = Observe("now", getVirtualTime(eng[Top], build, now))
    /\ last' = Call("read", Top)
    /\ UNCHANGED <<build, realm, sync, api, dialInstance, dial, loading, frame, now, eng, anims, media, tree, inbox, rafQueue>>

\* the page calls the patched requestAnimationFrame(cb)
Callbacks == {"f"}

RequestFrame(cb) ==
    /\ \A i \in 1..Len(rafQueue) : rafQueue[i] # cb
    /\ rafQueue' = Append(rafQueue, cb)
    /\ last' = Call("request", Top)
    /\ UNCHANGED <<build, realm, sync, api, dialInstance, dial, loading, frame, now, eng, anims, media, tree, inbox, obs>>

\* mutant of pollScheduled: the loop does not run while the engine is paused
pollScheduledUnpaused(e) == e.polling /\ ~e.isPaused

\* pollAnimations is registered with the native scheduler for the next frame
pollScheduled(e) == e.polling

\* a real frame of document d: pollAnimations, when scheduled, runs one pass
\* and reschedules itself unless the pass threw; then every wrapper registered through the patched rAF runs: it
\* calls its callback with the virtual timestamp, or registers the callback
\* again when the engine is paused
Frame(d) ==
    /\ d \in tree
    /\ IF pollScheduled(eng[d])
       THEN /\ reconcile(d, eng[d], FALSE)
            /\ eng' = [eng EXCEPT ![d].polling = ~Threw(d)']
       ELSE UNCHANGED <<eng, anims, media>>
    /\ IF d = Top /\ rafQueue # <<>> /\ ~eng[d].isPaused
       THEN /\ rafQueue' = <<>>
            /\ obs' = Observe("frame", getVirtualTime(eng[d], build, now))
       ELSE UNCHANGED <<rafQueue, obs>>
    /\ last' = Call("frame", d)
    /\ UNCHANGED <<build, realm, sync, api, dialInstance, dial, loading, frame, now, tree, inbox>>

(***************************************************************************)
(* The clock specification: one document without frames, real time passing,*)
(* speed changes, reads of the clock and frame callbacks.                  *)
(***************************************************************************)
NewAnimation(rate, state, excluded, unfinishable) ==
    [excluded |-> excluded, rate0 |-> rate, playbackRate |-> rate, playState |-> state,
     unfinishable |-> unfinishable, tracked |-> FALSE, original |-> 0, applied |-> 0,
     log |-> {}, pauser |-> IF state = "paused" THEN "page" ELSE "none",
     pageWrote |-> FALSE, infPass |-> FALSE, pending |-> None, detect |-> None,
     throws |-> FALSE]

NewMedia(rate, paused, excluded, hasDuration) ==
    [excluded |-> excluded, rate0 |-> rate, playbackRate |-> rate, paused |-> paused,
     hasDuration |-> hasDuration, atEnd |-> FALSE, tracked |-> FALSE, original |-> 0,
     applied |-> 0, wasPaused |-> FALSE, log |-> {}, pageWrote |-> FALSE,
     infPass |-> FALSE, pending |-> None, detect |-> None, owed |-> 0,
     unowed |-> FALSE, heldAtPause |-> FALSE, enginePaused |-> FALSE,
     throws |-> FALSE]

\* no frame in progress, no callback registered
NoFrame ==
    [cur |-> <<>>, ts |-> 0, reg |-> <<>>, inv |-> "none", first |-> "none",
     paused |-> FALSE, mid |-> FALSE, stale |-> {}, cancelled |-> {}]

\* no history of the public API is kept
NoApi ==
    [rec |-> FALSE, call |-> "none", arg |-> 0, prev |-> "none", nonZero |-> 0,
     requested |-> 0, handed |-> 0]

\* dialInstance = null; nothing in document.body
NoElement == [active |-> FALSE, body |-> 0, ret |-> "none", open |-> FALSE]

\* the dial as created: at 1x, not paused
Copies == {1, 2}

NoCopy ==
    [loaded |-> FALSE, isInstalled |-> FALSE, originalRAF |-> <<>>,
     originalPerformanceNow |-> <<>>, polls |-> 0,
     e |-> [currentSpeed |-> Unit, isPaused |-> FALSE, virtualTime |-> 0,
            lastRealTime |-> 0, pauseTime |-> 0, polling |-> FALSE]]

NoRealm ==
    [flag |-> FALSE, raf |-> <<>>, clock |-> <<>>, injected |-> 0,
     copy |-> [c \in Copies |-> NoCopy]]

NoSync == [rec |-> FALSE, timer |-> FALSE, calls |-> 0, got |-> [d \in Docs |-> 0]]

NoDial == [speed |-> Unit, paused |-> FALSE]

NoCall == [op |-> "init", doc |-> Top, wasPaused |-> FALSE]

InitClock ==
    /\ build \in Builds
    /\ now = Unit
    /\ eng = [d \in Docs |-> install(now)]
    /\ anims = [d \in Docs |-> IF d = Top
                               THEN <<NewAnimation(Unit, "running", FALSE, FALSE)>>
                               ELSE <<>>]
    /\ media = [d \in Docs |-> IF d = Top THEN <<NewMedia(Unit, FALSE, TRUE, TRUE)>>
                               ELSE <<>>]
    /\ tree = {Top}
    /\ inbox = [d \in Docs |-> <<>>]
    /\ rafQueue = <<>>
    /\ dial = NoDial
    /\ loading = {}
    /\ frame = NoFrame
    /\ api = NoApi
    /\ dialInstance = NoElement
    /\ realm = NoRealm
    /\ sync = NoSync
    /\ obs = NoObs
    /\ last = NoCall

NextClock ==
    \/ \E m \in ClockSpeeds : SetSpeed(Top, m)
    \/ Pause
    \/ Play
    \/ Reset
    \/ Tick
    \/ Read
    \/ \E cb \in Callbacks : RequestFrame(cb)
    \/ Frame(Top)

SpecClock == InitClock /\ [][NextClock]_vars

(***************************************************************************)
(* Page scripts (third parties) acting on the entities of the top document.*)
(***************************************************************************)
\* whether a rate x written by a page under engine state e differs from the
\* rate the engine would compute for the entity
Interferes(ent, x, expected, e) ==
    /\ ent.tracked /\ ~ent.excluded
    /\ ~e.isPaused /\ IsFinite(e.currentSpeed)
    /\ x # expected

\* a page script assigns animation.playbackRate = x
PageSetAnimationRate(i, x) ==
    /\ i \in DOMAIN anims[Top]
    /\ LET a == anims[Top][i]
           expected == Mul(a.original, eng[Top].currentSpeed)
       IN  anims' = [anims EXCEPT ![Top][i] =
              [a EXCEPT !.playbackRate = x, !.pageWrote = TRUE, !.detect = None,
                        !.pending = IF Interferes(a, x, expected, eng[Top])
                                    THEN x ELSE None]]
    /\ last' = Call("page", Top)
    /\ UNCHANGED <<build, realm, sync, api, dialInstance, dial, loading, frame, now, eng, media, tree, inbox, rafQueue, obs>>

\* a page script assigns media.playbackRate = x
PageSetMediaRate(i, x) ==
    /\ i \in DOMAIN media[Top]
    /\ LET m == media[Top][i]
           expected == mediaRate(m.original, eng[Top].currentSpeed, build)
       IN  media' = [media EXCEPT ![Top][i] =
              [m EXCEPT !.playbackRate = x, !.pageWrote = TRUE, !.detect = None,
                        !.pending = IF Interferes(m, x, expected, eng[Top])
                                    THEN x ELSE None]]
    /\ last' = Call("page", Top)
    /\ UNCHANGED <<build, realm, sync, api, dialInstance, dial, loading, frame, now, eng, anims, tree, inbox, rafQueue, obs>>

\* a page script calls animation.pause() or animation.play()
PageToggleAnimation(i) ==
    /\ i \in DOMAIN anims[Top]
    /\ anims[Top][i].playState \in {"running", "paused"}
    /\ anims' = [anims EXCEPT ![Top][i] =
          IF @.playState = "running"
          THEN [@ EXCEPT !.playState = "paused", !.pauser = "page"]
          ELSE [@ EXCEPT !.playState = "running", !.pauser = "none"]]
    /\ last' = Call("page", Top)
    /\ UNCHANGED <<build, realm, sync, api, dialInstance, dial, loading, frame, now, eng, media, tree, inbox, rafQueue, obs>>

\* a page script or the user calls media.pause() or media.play()
PageToggleMedia(i) ==
    /\ i \in DOMAIN media[Top]
    /\ media' = [media EXCEPT ![Top][i].paused = ~@]
    /\ last' = Call("page", Top)
    /\ UNCHANGED <<build, realm, sync, api, dialInstance, dial, loading, frame, now, eng, anims, tree, inbox, rafQueue, obs>>

(***************************************************************************)
(* The tracker specifications: one document without frames, holding one    *)
(* animation and one media element.  In SpecAnim page scripts act on the   *)
(* animation and the media element is opted out; in SpecMedia page scripts *)
(* act on the media element and the animation is opted out.  Speed         *)
(* changes, poll frames and page scripts interleave; real time stands      *)
(* still.                                                                  *)
(***************************************************************************)
InitAnim ==
    /\ build \in Builds
    /\ now = Unit
    /\ eng = [d \in Docs |-> install(now)]
    /\ \E r \in PageRates, st \in {"running", "paused"}, x \in BOOLEAN, u \in BOOLEAN :
          anims = [d \in Docs |-> IF d = Top THEN <<NewAnimation(r, st, x, u)>> ELSE <<>>]
    /\ media = [d \in Docs |-> IF d = Top THEN <<NewMedia(Unit, FALSE, TRUE, TRUE)>>
                               ELSE <<>>]
    /\ tree = {Top}
    /\ inbox = [d \in Docs |-> <<>>]
    /\ rafQueue = <<>>
    /\ dial = NoDial
    /\ loading = {}
    /\ frame = NoFrame
    /\ api = NoApi
    /\ dialInstance = NoElement
    /\ realm = NoRealm
    /\ sync = NoSync
    /\ obs = NoObs
    /\ last = NoCall

NextAnim ==
    \/ \E m \in AnimSpeeds : SetSpeed(Top, m)
    \/ Pause
    \/ Play
    \/ Reset
    \/ Frame(Top)
    \/ \E x \in PageRates : PageSetAnimationRate(1, x)
    \/ PageToggleAnimation(1)

SpecAnim == InitAnim /\ [][NextAnim]_vars

InitMedia ==
    /\ build \in Builds
    /\ now = Unit
    /\ eng = [d \in Docs |-> install(now)]
    /\ anims = [d \in Docs |-> IF d = Top
                               THEN <<NewAnimation(Unit, "running", TRUE, FALSE)>>
                               ELSE <<>>]
    /\ \E r \in PageRates, p \in BOOLEAN, x \in BOOLEAN, h \in BOOLEAN :
          media = [d \in Docs |-> IF d = Top THEN <<NewMedia(r, p, x, h)>> ELSE <<>>]
    /\ tree = {Top}
    /\ inbox = [d \in Docs |-> <<>>]
    /\ rafQueue = <<>>
    /\ dial = NoDial
    /\ loading = {}
    /\ frame = NoFrame
    /\ api = NoApi
    /\ dialInstance = NoElement
    /\ realm = NoRealm
    /\ sync = NoSync
    /\ obs = NoObs
    /\ last = NoCall

NextMedia ==
    \/ \E m \in MediaSpeeds : SetSpeed(Top, m)
    \/ Pause
    \/ Play
    \/ Reset
    \/ Frame(Top)
    \/ \E x \in PageRates : PageSetMediaRate(1, x)
    \/ PageToggleMedia(1)

SpecMedia == InitMedia /\ [][NextMedia]_vars

(***************************************************************************)
(* The synchronisation specification: the extension runs in the top        *)
(* document, in its iframe and in the iframe nested in that one; each      *)
(* document holds one animation and one media element.  The dial of the    *)
(* top document changes the speed; messages are delivered in the order     *)
(* they were posted to a window.                                           *)
(***************************************************************************)
\* the message listener of document d handles the first queued message:
\* setSpeed(paused ? 0 : speed), then the same message to its own iframes
forwardTwice(box, d, msg) ==
    broadcastToFrames(broadcastToFrames(box, d, msg.speed, msg.paused), d,
                      msg.speed, msg.paused)

forward(box, d, msg) == broadcastToFrames(box, d, msg.speed, msg.paused)

\* the message listener of document d handles msg; rest is what stays queued
\* for its window.  The setSpeed it calls is, in the top document, the
\* wrapper that broadcasts.
listener(d, msg, rest) ==
    /\ engineSetSpeed(d, eng[d], IF msg.paused THEN 0 ELSE msg.speed)
    /\ inbox' = IF Threw(d)' THEN [inbox EXCEPT ![d] = rest]
                ELSE LET s == IF msg.paused THEN 0 ELSE msg.speed
                         box == [inbox EXCEPT ![d] = rest]
                     IN  forward(IF build = "ext" /\ isTopFrame(d)
                                 THEN broadcastToFrames(box, d, s, s = 0)
                                 ELSE box, d, msg)
    /\ sync' = IF sync.rec THEN [sync EXCEPT !.got[d] = @ + 1] ELSE sync

Deliver(d) ==
    /\ d \in tree /\ d # Top
    /\ inbox[d] # <<>>
    /\ \A c \in Children(d) \cap tree : Len(inbox[c]) < MaxCalls
    /\ listener(d, Head(inbox[d]), Tail(inbox[d]))
    /\ last' = Call("message", d)
    /\ UNCHANGED <<build, realm, api, dialInstance, dial, loading, frame, now, tree, rafQueue, obs>>

InitSync ==
    /\ build = "ext"
    /\ now = Unit
    /\ eng = [d \in Docs |-> install(now)]
    /\ \E r \in SyncRates :
          /\ anims = [d \in Docs |-> <<NewAnimation(r, "running", d = Top, FALSE)>>]
          /\ media = [d \in Docs |-> <<NewMedia(r, FALSE, d = Top, TRUE)>>]
    /\ tree = Docs
    /\ inbox = [d \in Docs |-> <<>>]
    /\ rafQueue = <<>>
    /\ dial = NoDial
    /\ loading = {}
    /\ frame = NoFrame
    /\ api = NoApi
    /\ dialInstance = NoElement
    /\ realm = NoRealm
    /\ sync = NoSync
    /\ obs = NoObs
    /\ last = NoCall

NextSync ==
    \/ \E m \in SyncSpeeds : SetSpeed(Top, m)
    \/ \E d \in Docs : Deliver(d)
    \/ \E d \in Docs : Frame(d)

SpecSync == InitSync /\ [][NextSync]_vars

(***************************************************************************)
(* The attach specification: the extension runs in the top document with   *)
(* its dial; frame 1 is attached to the top document, and frame 2 to the   *)
(* document of frame 1, while the user turns and clicks the dial.  A frame *)
(* runs the content script once its document has loaded.                   *)
(***************************************************************************)
\* speeds the dial is turned to (within MIN_SPEED .. MAX_SPEED); it starts at 1
DialSpeeds == {Unit \div 4, 2 * Unit}

\* mutant of loadMessage: a new frame is told the state of a fresh engine
loadMessageDefault(dl) == [speed |-> Unit, paused |-> FALSE]

\* the message the load listener of a new iframe posts to it
loadMessage(dl) == [speed |-> dl.speed, paused |-> dl.paused]

\* the setSpeed of the top document of the extension: the wrapper
dialSetSpeed(speed) ==
    /\ \A c \in Children(Top) \cap tree : Len(inbox[c]) < MaxCalls
    /\ engineSetSpeed(Top, eng[Top], speed)
    /\ inbox' = IF Threw(Top)' THEN inbox
                ELSE broadcastToFrames(inbox, Top, speed, speed = 0)
    /\ obs' = Called
    /\ last' = Call("call", Top)

\* handleMouseMove while rotating: the angle changes, and the speed with it
\* unless the dial is paused
DialRotate(s) ==
    /\ s # dial.speed
    /\ dial' = [dial EXCEPT !.speed = s]
    /\ IF dial.paused
       THEN /\ last' = Call("dial", Top)
            /\ UNCHANGED <<eng, anims, media, inbox, obs>>
       ELSE dialSetSpeed(s)
    /\ UNCHANGED <<build, realm, sync, api, dialInstance, now, tree, rafQueue, loading, frame>>

\* handleMouseDown in the pause zone: pause toggle
DialToggle ==
    /\ dial' = [dial EXCEPT !.paused = ~dial.paused]
    /\ dialSetSpeed(IF dial'.paused THEN 0 ELSE dial.speed)
    /\ UNCHANGED <<build, realm, sync, api, dialInstance, now, tree, rafQueue, loading, frame>>

\* the page attaches the iframe of document d; the MutationObserver of the
\* top document adds its load listener to an iframe of the top document
Attach(d) ==
    /\ d \in Docs \ (tree \cup loading) /\ d # Top
    /\ Parent(d) \in tree
    /\ loading' = loading \cup {d}
    /\ last' = Call("attach", d)
    /\ UNCHANGED <<build, realm, sync, api, dialInstance, now, eng, anims, media, tree, inbox, rafQueue, dial, frame, obs>>

\* the load event of the iframe of document d fires: the content script runs
\* in d, and the load listener of the top document posts the current state
Load(d) ==
    /\ d \in loading
    /\ loading' = loading \ {d}
    /\ tree' = tree \cup {d}
    /\ inbox' = IF Parent(d) = Top
                THEN [inbox EXCEPT ![d] = Append(@, loadMessage(dial))]
                ELSE inbox
    /\ last' = Call("load", d)
    /\ UNCHANGED <<build, realm, sync, api, dialInstance, now, eng, anims, media, rafQueue, dial, frame, obs>>

InitAttach ==
    /\ build = "ext"
    /\ now = Unit
    /\ eng = [d \in Docs |-> install(now)]
    /\ \E r \in SyncRates :
          /\ anims = [d \in Docs |-> <<NewAnimation(r, "running", d = Top, FALSE)>>]
          /\ media = [d \in Docs |-> <<NewMedia(r, FALSE, d = Top, TRUE)>>]
    /\ tree = {Top}
    /\ inbox = [d \in Docs |-> <<>>]
    /\ rafQueue = <<>>
    /\ dial = NoDial
    /\ loading = {}
    /\ frame = NoFrame
    /\ api = NoApi
    /\ dialInstance = NoElement
    /\ realm = NoRealm
    /\ sync = NoSync
    /\ obs = NoObs
    /\ last = NoCall

NextAttach ==
    \/ \E s \in DialSpeeds : DialRotate(s)
    \/ DialToggle
    \/ \E d \in Docs : Attach(d)
    \/ \E d \in Docs : Load(d)
    \/ \E d \in Docs : Deliver(d)
    \/ \E d \in Docs : Frame(d)

SpecAttach == InitAttach /\ [][NextAttach]_vars

(***************************************************************************)
(* The message specification: frame 1 runs the extension and holds one     *)
(* animation and one media element; sync messages of any multiplier are    *)
(* posted to its window (by its parent or by any other window) and handled *)
(* by its listener, between poll frames.                                   *)
(***************************************************************************)
\* multipliers carried by sync messages
MsgSpeeds == {0, Half, 2 * Unit, Infinity}

\* a window posts the sync message of setSpeed(m) to the window of document d
Post(d, m) ==
    /\ d \in tree /\ d # Top
    /\ Len(inbox[d]) < MaxCalls
    /\ inbox' = [inbox EXCEPT ![d] = Append(@, [speed |-> m, paused |-> (m = 0)])]
    /\ last' = Call("post", d)
    /\ UNCHANGED <<build, realm, sync, api, dialInstance, dial, loading, frame, now, eng, anims, media, tree, rafQueue, obs>>

InitMsg ==
    /\ build = "ext"
    /\ now = Unit
    /\ eng = [d \in Docs |-> install(now)]
    /\ \E r \in PageRates, st \in {"running", "paused"}, u \in BOOLEAN :
          anims = [d \in Docs |-> IF d = 1 THEN <<NewAnimation(r, st, FALSE, u)>> ELSE <<>>]
    /\ \E r \in PageRates, p \in BOOLEAN, h \in BOOLEAN :
          media = [d \in Docs |-> IF d = 1 THEN <<NewMedia(r, p, FALSE, h)>> ELSE <<>>]
    /\ tree = {Top, 1}
    /\ inbox = [d \in Docs |-> <<>>]
    /\ rafQueue = <<>>
    /\ dial = NoDial
    /\ loading = {}
    /\ frame = NoFrame
    /\ api = NoApi
    /\ dialInstance = NoElement
    /\ realm = NoRealm
    /\ sync = NoSync
    /\ obs = NoObs
    /\ last = NoCall

NextMsg ==
    \/ \E m \in MsgSpeeds : Post(1, m)
    \/ Deliver(1)
    \/ Frame(1)

SpecMsg == InitMsg /\ [][NextMsg]_vars

(***************************************************************************)
(* The exception specification: one document holding two animations and    *)
(* one media element, of which at most one is an entity on which the       *)
(* engine's writes and calls throw (pause() or play() in an invalid state, *)
(* a rate the platform rejects).  The library can also be loaded in a      *)
(* realm without window: no document then, and install() does nothing.     *)
(***************************************************************************)
\* the engine as the module leaves it when install() did nothing
notInstalled ==
    [currentSpeed |-> Unit, isPaused |-> FALSE, virtualTime |-> 0,
     lastRealTime |-> 0, pauseTime |-> 0, polling |-> FALSE]

\* the public operations that change the speed
SpeedCalls == {"setSpeed", "pause", "play", "reset"}

\* setSpeed, pause, play or reset of the library in a realm without window:
\* install() returns at once, and setSpeed calls originalPerformanceNow,
\* which was never assigned: a TypeError, before any state is written
NoWindowCall(f) ==
    /\ build = "lib" /\ Top \notin tree
    /\ last' = [op |-> "error", doc |-> Top, wasPaused |-> eng[Top].isPaused]
    /\ UNCHANGED <<build, realm, sync, api, dialInstance, dial, loading, frame, now, eng, anims, media, tree, inbox, rafQueue, obs>>

\* getSpeed of the library in a realm without window: returns currentSpeed
NoWindowGetSpeed ==
    /\ build = "lib" /\ Top \notin tree
    /\ last' = Call("getSpeed", Top)
    /\ UNCHANGED <<build, realm, sync, api, dialInstance, dial, loading, frame, now, eng, anims, media, tree, inbox, rafQueue, obs>>

\* the library loaded in a realm without window
InitNoWindow ==
    /\ build = "lib"
    /\ now = Unit
    /\ eng = [d \in Docs |-> notInstalled]
    /\ anims = [d \in Docs |-> <<>>]
    /\ media = [d \in Docs |-> <<>>]
    /\ tree = {}
    /\ inbox = [d \in Docs |-> <<>>]
    /\ rafQueue = <<>>
    /\ dial = NoDial
    /\ loading = {}
    /\ frame = NoFrame
    /\ api = NoApi
    /\ dialInstance = NoElement
    /\ realm = NoRealm
    /\ sync = NoSync
    /\ obs = NoObs
    /\ last = NoCall

\* multipliers of the exception specification
ThrowSpeeds == {0, Half, 2 * Unit}

\* the entity the operations on which throw: animation 1 or 2, the media
\* element (3), or none (0)
Throwers == 0..3

InitWindow ==
    /\ build \in Builds
    /\ now = Unit
    /\ eng = [d \in Docs |-> install(now)]
    /\ \E k \in Throwers :
          /\ anims = [d \in Docs |->
                IF d = Top
                THEN <<[NewAnimation(Unit, "running", FALSE, FALSE) EXCEPT !.throws = (k = 1)],
                       [NewAnimation(Unit, "running", FALSE, FALSE) EXCEPT !.throws = (k = 2)]>>
                ELSE <<>>]
          /\ media = [d \in Docs |->
                IF d = Top
                THEN <<[NewMedia(Unit, FALSE, FALSE, TRUE) EXCEPT !.throws = (k = 3)]>>
                ELSE <<>>]
    /\ tree = {Top}
    /\ inbox = [d \in Docs |-> <<>>]
    /\ rafQueue = <<>>
    /\ dial = NoDial
    /\ loading = {}
    /\ frame = NoFrame
    /\ api = NoApi
    /\ dialInstance = NoElement
    /\ realm = NoRealm
    /\ sync = NoSync
    /\ obs = NoObs
    /\ last = NoCall

InitThrow == InitWindow \/ InitNoWindow

NextThrow ==
    \/ \E m \in ThrowSpeeds : SetSpeed(Top, m)
    \/ Frame(Top)
    \/ \E i \in 1..2 : PageToggleAnimation(i)
    \/ \E f \in SpeedCalls : NoWindowCall(f)
    \/ NoWindowGetSpeed

SpecThrow == InitThrow /\ [][NextThrow]_vars

(***************************************************************************)
(* The effect specification: one document that starts empty; animations    *)
(* and media elements appear in it (element.animate(), a video inserted)   *)
(* between speed changes and poll frames.  No page script touches an       *)
(* entity after creating it.                                               *)
(***************************************************************************)
\* multipliers of the effect specification
EffectSpeeds == {0, Half, 2 * Unit, Infinity}

\* rates of the entities that appear
NewRates == {Unit}

\* the page creates a running animation of rate r
AppearAnimation(r, u) ==
    /\ Top \in tree
    /\ Len(anims[Top]) < MaxNew
    /\ anims' = [anims EXCEPT ![Top] = Append(@, NewAnimation(r, "running", FALSE, u))]
    /\ last' = Call("page", Top)
    /\ UNCHANGED <<build, realm, sync, api, dialInstance, dial, loading, frame, now, eng, media, tree, inbox, rafQueue, obs>>

\* the page inserts a playing media element of rate r
AppearMedia(r, h) ==
    /\ Top \in tree
    /\ Len(media[Top]) < MaxNew
    /\ media' = [media EXCEPT ![Top] = Append(@, NewMedia(r, FALSE, FALSE, h))]
    /\ last' = Call("page", Top)
    /\ UNCHANGED <<build, realm, sync, api, dialInstance, dial, loading, frame, now, eng, anims, tree, inbox, rafQueue, obs>>

InitEffect ==
    /\ build \in Builds
    /\ now = Unit
    /\ eng = [d \in Docs |-> install(now)]
    /\ anims = [d \in Docs |-> <<>>]
    /\ media = [d \in Docs |-> <<>>]
    /\ tree = {Top}
    /\ inbox = [d \in Docs |-> <<>>]
    /\ rafQueue = <<>>
    /\ dial = NoDial
    /\ loading = {}
    /\ frame = NoFrame
    /\ api = NoApi
    /\ dialInstance = NoElement
    /\ realm = NoRealm
    /\ sync = NoSync
    /\ obs = NoObs
    /\ last = NoCall

NextEffect ==
    \/ \E m \in EffectSpeeds : SetSpeed(Top, m)
    \/ Pause
    \/ Play
    \/ Reset
    \/ Frame(Top)
    \/ \E r \in NewRates, u \in BOOLEAN : AppearAnimation(r, u)
    \/ \E r \in NewRates, h \in BOOLEAN : AppearMedia(r, h)

SpecEffect == InitEffect /\ [][NextEffect]_vars

(***************************************************************************)
(* The frame callback specification: the page registers callbacks through  *)
(* the patched requestAnimationFrame; in a real frame the native scheduler *)
(* runs the wrappers registered before it, one by one, in order of         *)
(* registration.  A callback, when invoked, may register itself again (an  *)
(* animation loop) and may pause the engine.  Between frames the page      *)
(* changes the speed.  History kept in frame: reg, the callbacks the page  *)
(* registered that were not invoked yet, oldest first; inv, the callback   *)
(* the last step invoked, with first, the oldest registration then         *)
(* pending, and paused, whether the engine was paused; mid, whether the    *)
(* engine was ever paused from inside a frame.                             *)
(***************************************************************************)
RafCallbacks == {"f", "g", "h"}

\* multipliers of the frame callback specification
RafSpeeds == {0, Half, Unit}

InSeq(q, x) == \E i \in 1..Len(q) : q[i] = x

Without(q, x) == SelectSeq(q, LAMBDA y : y # x)

\* mutant of invokes: the wrapper calls its callback also while paused
invokesAlways(e) == TRUE

\* the test of the wrapper: the callback is called unless the engine is paused
invokes(e) == ~e.isPaused

\* the page calls the patched requestAnimationFrame(cb) between two frames
RafRequest(cb) ==
    /\ frame.cur = <<>>
    /\ ~InSeq(rafQueue, cb)
    /\ rafQueue' = Append(rafQueue, cb)
    /\ frame' = [frame EXCEPT !.reg = Append(@, cb), !.inv = "none", !.first = "none",
                              !.paused = FALSE, !.cancelled = @ \ {cb}]
    /\ last' = Call("request", Top)
    /\ UNCHANGED <<build, realm, sync, api, dialInstance, dial, loading, now, eng, anims, media, tree, inbox, obs>>

\* a real frame begins: the native scheduler takes the callbacks registered
\* for it; pollAnimations is one of them
BeginFrame ==
    /\ frame.cur = <<>> /\ rafQueue # <<>>
    /\ pollScheduled(eng[Top])
    /\ reconcile(Top, eng[Top], FALSE)
    /\ rafQueue' = <<>>
    /\ frame' = [frame EXCEPT !.cur = rafQueue, !.ts = now, !.inv = "none",
                              !.first = "none", !.paused = FALSE]
    /\ last' = Call("frame", Top)
    /\ UNCHANGED <<build, realm, sync, api, dialInstance, dial, loading, now, eng, tree, inbox, obs>>

\* the next wrapper of the frame in progress runs: it calls its callback with
\* the virtual time of the frame's timestamp, or, when the engine is paused,
\* registers the callback again.  The callback, when called, registers itself
\* again or not (again) and calls setSpeed(m) or not (m = None).
RunWrapper(again, m) ==
    /\ frame.cur # <<>>
    /\ LET cb == Head(frame.cur)
           stop == m = 0
       IN  IF invokes(eng[Top])
           THEN /\ rafQueue' = IF again THEN Append(rafQueue, cb) ELSE rafQueue
                /\ frame' = [cur |-> Tail(frame.cur),
                             ts |-> frame.ts,
                             reg |-> IF again THEN Append(Without(frame.reg, cb), cb)
                                     ELSE Without(frame.reg, cb),
                             inv |-> cb,
                             first |-> IF frame.reg = <<>> THEN "none" ELSE Head(frame.reg),
                             paused |-> eng[Top].isPaused,
                             mid |-> frame.mid \/ stop,
                             stale |-> frame.stale \ {cb},
                             cancelled |-> frame.cancelled]
                /\ obs' = [Observe("frame", getVirtualTime(eng[Top], build, frame.ts))
                              EXCEPT !.since = (m # None)]
                /\ IF m # None
                   THEN engineSetSpeed(Top, eng[Top], m)
                   ELSE UNCHANGED <<eng, anims, media>>
           ELSE /\ ~again /\ m = None
                /\ rafQueue' = Append(rafQueue, cb)
                /\ frame' = [frame EXCEPT !.cur = Tail(@), !.inv = "none",
                                          !.first = "none", !.paused = FALSE,
                                          !.stale = @ \cup {cb}]
                /\ UNCHANGED <<eng, anims, media, obs>>
    /\ last' = Call("wrapper", Top)
    /\ UNCHANGED <<build, realm, sync, api, dialInstance, dial, loading, now, tree, inbox>>

\* the page calls cancelAnimationFrame(handle) with the handle the patched
\* requestAnimationFrame returned for cb: the handle of the wrapper that
\* originalRAF registered.  cancelAnimationFrame is the native one; when a
\* paused frame has run that wrapper, the callback is pending under a handle
\* of the re-issue, which the page never saw, and the cancellation finds
\* nothing
Cancel(cb) ==
    /\ frame.cur = <<>>
    /\ InSeq(frame.reg, cb)
    /\ rafQueue' = IF cb \in frame.stale THEN rafQueue ELSE Without(rafQueue, cb)
    /\ frame' = [frame EXCEPT !.reg = Without(@, cb), !.cancelled = @ \cup {cb},
                              !.inv = "none", !.first = "none", !.paused = FALSE]
    /\ last' = Call("cancel", Top)
    /\ UNCHANGED <<build, realm, sync, api, dialInstance, dial, loading, now, eng, anims, media, tree, inbox, obs>>

\* setSpeed(m) called between two frames
BetweenFrames(m) ==
    /\ frame.cur = <<>>
    /\ engineSetSpeed(Top, eng[Top], m)
    /\ frame' = [frame EXCEPT !.inv = "none", !.first = "none", !.paused = FALSE]
    /\ obs' = Called
    /\ last' = Call("call", Top)
    /\ UNCHANGED <<build, realm, sync, api, dialInstance, dial, loading, now, tree, inbox, rafQueue>>

InitRaf ==
    /\ build \in Builds
    /\ now = Unit
    /\ eng = [d \in Docs |-> install(now)]
    /\ anims = [d \in Docs |-> <<>>]
    /\ media = [d \in Docs |-> <<>>]
    /\ tree = {Top}
    /\ inbox = [d \in Docs |-> <<>>]
    /\ rafQueue = <<>>
    /\ dial = NoDial
    /\ loading = {}
    /\ frame = NoFrame
    /\ api = NoApi
    /\ dialInstance = NoElement
    /\ realm = NoRealm
    /\ sync = NoSync
    /\ obs = NoObs
    /\ last = NoCall

NextRaf ==
    \/ \E cb \in RafCallbacks : RafRequest(cb)
    \/ BeginFrame
    \/ \E again \in BOOLEAN, m \in RafSpeeds \cup {None} : RunWrapper(again, m)
    \/ \E m \in RafSpeeds : BetweenFrames(m)

SpecRaf == InitRaf /\ [][NextRaf]_vars

(***************************************************************************)
(* The timestamp specification: as SpecRaf, with two callbacks, and real   *)
(* time passing, also between the beginning of a frame (whose timestamp    *)
(* every wrapper of the frame receives) and the run of its wrappers; the   *)
(* page reads performance.now() between frames.                            *)
(***************************************************************************)
StampCallbacks == {"f", "h"}

\* the page reads the patched performance.now() outside a frame
ReadBetweenFrames == frame.cur = <<>> /\ Read

NextStamp ==
    \/ \E cb \in StampCallbacks : RafRequest(cb)
    \/ BeginFrame
    \/ \E again \in BOOLEAN, m \in RafSpeeds \cup {None} : RunWrapper(again, m)
    \/ \E m \in RafSpeeds : BetweenFrames(m)
    \/ Tick
    \/ ReadBetweenFrames

SpecStamp == InitRaf /\ [][NextStamp]_vars

(***************************************************************************)
(* The cancellation specification: as SpecRaf, and the page cancels        *)
(* callbacks it requested.                                                 *)
(***************************************************************************)
NextCancel ==
    \/ NextRaf
    \/ \E cb \in RafCallbacks : Cancel(cb)

SpecCancel == InitRaf /\ [][NextCancel]_vars

(***************************************************************************)
(* One realm and the copies of the engine in it.  window.requestAnimation- *)
(* Frame and performance.now are stacks of wrapper layers, outermost       *)
(* first; the empty stack is the native function.  Each copy holds what it *)
(* captured in originalRAF and originalPerformanceNow when it installed.   *)
(***************************************************************************)
LayerSpeeds == {0, Half, 2 * Unit}

\* What a function standing for the stack s returns at real time t: each
\* layer is () => getVirtualTime(originalPerformanceNow()) of its copy (and
\* the frame wrapper getVirtualTime(realTimestamp) likewise).
RECURSIVE through(_, _, _)
through(r, s, t) ==
    IF s = <<>> THEN t
    ELSE LET cp == r.copy[Head(s)]
         IN  getVirtualTime(cp.e, build, through(r, cp.originalPerformanceNow, t))

alreadyInstalled(cp) == cp.isInstalled

\* install() of copy c at real time t.
installCopy(r, c, t) ==
    IF alreadyInstalled(r.copy[c]) THEN r
    ELSE LET realNow == through(r, r.clock, t)
         IN  [r EXCEPT !.raf = <<c>> \o @,
                       !.clock = <<c>> \o @,
                       !.copy[c] = [@ EXCEPT !.isInstalled = TRUE,
                                             !.originalRAF = r.raf,
                                             !.originalPerformanceNow = r.clock,
                                             !.polls = @ + 1,
                                             !.e = [@ EXCEPT !.virtualTime = realNow,
                                                             !.lastRealTime = realNow,
                                                             !.polling = TRUE]]]

alreadyLoadedNever(r) == FALSE

alreadyLoaded(r) == r.flag

RealmUnchanged ==
    UNCHANGED <<build, sync, api, dialInstance, dial, loading, frame, eng, anims, media, tree,
                inbox, rafQueue>>

\* The content script is injected: a fresh closure c runs, and returns at
\* once when the flag of the window is set.
Inject(c) ==
    /\ build = "ext"
    /\ ~realm.copy[c].loaded
    /\ realm.injected <= MaxCalls
    /\ realm' = IF alreadyLoaded(realm)
                THEN [realm EXCEPT !.injected = @ + 1]
                ELSE installCopy([realm EXCEPT !.flag = TRUE, !.injected = @ + 1,
                                               !.copy[c].loaded = TRUE], c, now)
    /\ obs' = [obs EXCEPT !.since = TRUE]
    /\ last' = Call("inject", Top)
    /\ now' = now
    /\ RealmUnchanged

\* A bundle c of the library is evaluated: module state, then auto-install.
Import(c) ==
    /\ build = "lib"
    /\ ~realm.copy[c].loaded
    /\ realm' = installCopy([realm EXCEPT !.copy[c].loaded = TRUE], c, now)
    /\ obs' = [obs EXCEPT !.since = TRUE]
    /\ last' = Call("import", Top)
    /\ now' = now
    /\ RealmUnchanged

\* setSpeed(speed) of copy c: install() unless installed, then the checkpoint
\* at originalPerformanceNow().
CopySetSpeed(c, speed) ==
    /\ realm.copy[c].loaded
    /\ LET r == installCopy(realm, c, now)
           realNow == through(r, r.copy[c].originalPerformanceNow, now)
       IN  realm' = [r EXCEPT !.copy[c].e = checkpoint(@, build, speed, realNow)]
    /\ obs' = [obs EXCEPT !.since = TRUE]
    /\ last' = Call("copySetSpeed", Top)
    /\ now' = now
    /\ RealmUnchanged

\* The page reads performance.now().
RealmRead ==
    /\ realm.clock # <<>>
    /\ obs' = Observe("now", through(realm, realm.clock, now))
    /\ last' = Call("realmRead", Top)
    /\ UNCHANGED <<realm, now>>
    /\ RealmUnchanged

\* A real frame: every pending poll-loop request runs pollAnimations, which
\* requests the next one with originalRAF.
RealmFrame ==
    /\ realm.raf # <<>>
    /\ realm' = [realm EXCEPT !.copy = [c \in Copies |->
                     LET runs == realm.copy[c].polls
                     IN  [realm.copy[c] EXCEPT !.polls = runs]]]
    /\ last' = Call("realmFrame", Top)
    /\ UNCHANGED <<obs, now>>
    /\ RealmUnchanged

RealmTick ==
    /\ now < MaxTime * Unit
    /\ now' = now + Unit
    /\ last' = Call("realmTick", Top)
    /\ UNCHANGED <<realm, obs>>
    /\ RealmUnchanged

NoneLoaded == \A c \in Copies : ~realm.copy[c].loaded

\* The installation specification: one copy of the engine in a realm.  The
\* content script is injected again and again, or the one bundle of the
\* library was imported; setSpeed is called.
NextInstall ==
    \/ \E c \in Copies : Inject(c)
    \/ \E c \in Copies : NoneLoaded /\ Import(c)
    \/ \E c \in Copies, m \in LayerSpeeds : CopySetSpeed(c, m)
    \/ RealmRead
    \/ RealmFrame
    \/ RealmTick

SpecInstall == InitRaf /\ [][NextInstall]_vars

\* The layered specification: two independent bundles of the library are
\* evaluated in one realm.
InitLayered == InitRaf /\ build = "lib"

NextLayered ==
    \/ \E c \in Copies : Import(c)
    \/ \E c \in Copies, m \in LayerSpeeds : CopySetSpeed(c, m)
    \/ RealmRead
    \/ RealmFrame
    \/ RealmTick

SpecLayered == InitLayered /\ [][NextLayered]_vars

(***************************************************************************)
(* The relay specification: the extension in a page with nested frames.    *)
(* The top document makes a bounded number of setSpeed calls, the frames   *)
(* call their own window.slowmo, and the listeners handle what they are    *)
(* sent.                                                                   *)
(***************************************************************************)
InitRelay ==
    /\ build = "ext"
    /\ now = Unit
    /\ eng = [d \in Docs |-> install(now)]
    /\ anims = [d \in Docs |-> <<>>]
    /\ media = [d \in Docs |-> <<>>]
    /\ tree = Docs
    /\ inbox = [d \in Docs |-> <<>>]
    /\ rafQueue = <<>>
    /\ dial = NoDial
    /\ loading = {}
    /\ frame = NoFrame
    /\ api = NoApi
    /\ dialInstance = NoElement
    /\ realm = NoRealm
    /\ sync = [NoSync EXCEPT !.rec = TRUE]
    /\ obs = NoObs
    /\ last = NoCall

NextRelay ==
    \/ \E m \in SyncSpeeds : sync.calls < MaxCalls /\ SetSpeed(Top, m)
    \/ \E d \in Docs \ {Top}, m \in SyncSpeeds : SetSpeed(d, m)
    \/ \E d \in Docs : Deliver(d)

SpecRelay == InitRelay /\ [][NextRelay]_vars

(***************************************************************************)
(* The top-window specification: as the relay specification, the top       *)
(* document driven by its dial, and any window posting sync messages to    *)
(* the top window, whose listener handles them.                            *)
(***************************************************************************)
TopMsgSpeeds == {Half, 2 * Unit}

PostTop(m, p) ==
    /\ Len(inbox[Top]) < MaxCalls
    /\ inbox' = [inbox EXCEPT ![Top] = Append(@, [speed |-> m, paused |-> p])]
    /\ last' = Call("postTop", Top)
    /\ UNCHANGED <<build, realm, sync, api, dialInstance, dial, loading, frame, now, eng, anims, media, tree, rafQueue, obs>>

DeliverTop ==
    /\ inbox[Top] # <<>>
    /\ \A c \in Children(Top) \cap tree : Len(inbox[c]) + 2 <= MaxCalls
    /\ listener(Top, Head(inbox[Top]), Tail(inbox[Top]))
    /\ last' = Call("messageTop", Top)
    /\ UNCHANGED <<build, realm, api, dialInstance, dial, loading, frame, now, tree, rafQueue, obs>>

InitTopMsg ==
    /\ build = "ext"
    /\ now = Unit
    /\ eng = [d \in Docs |-> install(now)]
    /\ anims = [d \in Docs |-> <<>>]
    /\ media = [d \in Docs |-> <<>>]
    /\ tree = Docs
    /\ inbox = [d \in Docs |-> <<>>]
    /\ rafQueue = <<>>
    /\ dial = NoDial
    /\ loading = {}
    /\ frame = NoFrame
    /\ api = NoApi
    /\ dialInstance = NoElement
    /\ realm = NoRealm
    /\ sync = NoSync
    /\ obs = NoObs
    /\ last = NoCall

NextTopMsg ==
    \/ \E s \in DialSpeeds : DialRotate(s)
    \/ DialToggle
    \/ \E m \in TopMsgSpeeds, p \in BOOLEAN : PostTop(m, p)
    \/ DeliverTop
    \/ \E d \in Docs : Deliver(d)

SpecTopMsg == InitTopMsg /\ [][NextTopMsg]_vars

(***************************************************************************)
(* The unordered specification: as the relay specification, with the       *)
(* messages queued for a window handled in any order, and any of them more *)
(* than once.                                                              *)
(***************************************************************************)
RemoveAt(q, i) == SubSeq(q, 1, i - 1) \o SubSeq(q, i + 1, Len(q))

DeliverAny(d, i, again) ==
    /\ d \in tree /\ d # Top
    /\ i \in DOMAIN inbox[d]
    /\ \A c \in Children(d) \cap tree : Len(inbox[c]) < MaxCalls
    /\ listener(d, inbox[d][i], IF again THEN inbox[d] ELSE RemoveAt(inbox[d], i))
    /\ last' = Call("message", d)
    /\ UNCHANGED <<build, realm, api, dialInstance, dial, loading, frame, now, tree, rafQueue, obs>>

NextUnordered ==
    \/ \E m \in SyncSpeeds : SetSpeed(Top, m)
    \/ \E d \in Docs, i \in 1..MaxCalls, again \in BOOLEAN : DeliverAny(d, i, again)

SpecUnordered == InitTopMsg /\ [][NextUnordered]_vars

(***************************************************************************)
(* The startup specification: the content script has just run in the top   *)
(* document, whose startup timer is pending; the frames of the page exist  *)
(* and their content scripts have yet to run.  The dial is used until the  *)
(* startup broadcast, and not after it.                                    *)
(***************************************************************************)
\* the timer set at initialisation fires: the one startup broadcast
Startup ==
    /\ sync.timer
    /\ \A c \in Children(Top) \cap tree : Len(inbox[c]) < MaxCalls
    /\ inbox' = broadcastToFrames(inbox, Top, dial.speed, dial.paused)
    /\ sync' = [sync EXCEPT !.timer = FALSE]
    /\ last' = Call("startup", Top)
    /\ UNCHANGED <<build, realm, api, dialInstance, dial, loading, frame, now, eng, anims, media, tree, rafQueue, obs>>

\* the content script runs in frame d, which was in the page when its
\* parent's script started: its listener is registered from now on
Ready(d) ==
    /\ d \in loading
    /\ Parent(d) \in tree
    /\ loading' = loading \ {d}
    /\ tree' = tree \cup {d}
    /\ last' = Call("ready", d)
    /\ UNCHANGED <<build, realm, sync, api, dialInstance, dial, frame, now, eng, anims, media, inbox, rafQueue, obs>>

InitStartup ==
    /\ build = "ext"
    /\ now = Unit
    /\ eng = [d \in Docs |-> install(now)]
    /\ anims = [d \in Docs |-> <<>>]
    /\ media = [d \in Docs |-> <<>>]
    /\ tree = {Top}
    /\ inbox = [d \in Docs |-> <<>>]
    /\ rafQueue = <<>>
    /\ dial = NoDial
    /\ loading = Docs \ {Top}
    /\ frame = NoFrame
    /\ api = NoApi
    /\ dialInstance = NoElement
    /\ realm = NoRealm
    /\ sync = [NoSync EXCEPT !.timer = TRUE]
    /\ obs = NoObs
    /\ last = NoCall

NextStartup ==
    \/ \E s \in DialSpeeds : sync.timer /\ DialRotate(s)
    \/ sync.timer /\ DialToggle
    \/ Startup
    \/ \E d \in Docs : Ready(d)
    \/ \E d \in Docs : Deliver(d)

\* the timer fires, every content script runs, every queued message event is
\* dispatched
SpecStartup ==
    /\ InitStartup
    /\ [][NextStartup]_vars
    /\ WF_vars(Startup)
    /\ WF_vars(\E d \in Docs : Ready(d))
    /\ WF_vars(\E d \in Docs : Deliver(d))

(***************************************************************************)
(* The API specification: the library in a page, its document empty.  The  *)
(* page calls the public API (slowmo / setSpeed, pause, play, reset,       *)
(* getSpeed), the timers of the platform, and the dial API (setupDial,     *)
(* shutdownDial, isDialActive).  Real time stands still.                   *)
(***************************************************************************)
\* multipliers of the API specification; 1/64 is a very small one
ApiSpeeds == {0, Unit \div 64, Half, 2 * Unit, Infinity}

\* delays the page passes to setTimeout / setInterval
TimerDelays == {Unit, 2 * Unit}

\* the page calls getSpeed()
GetSpeed ==
    /\ build = "lib" /\ Top \in tree
    /\ obs' = Observe("getSpeed", getSpeed(eng[Top]))
    /\ last' = Call("getSpeed", Top)
    /\ UNCHANGED <<build, realm, sync, api, dialInstance, dial, loading, frame, now, eng, anims, media, tree, inbox, rafQueue>>

\* the delay that reaches the native scheduler for a requested delay d:
\* install() patches requestAnimationFrame and performance.now only, so
\* setTimeout and setInterval are the native ones
timerDelay(d, e) == d

\* the page calls setTimeout(cb, d) or setInterval(cb, d)
SetTimeout(d) ==
    /\ build = "lib" /\ Top \in tree
    /\ api' = [api EXCEPT !.requested = d, !.handed = timerDelay(d, eng[Top])]
    /\ last' = Call("timer", Top)
    /\ UNCHANGED <<build, realm, sync, dialInstance, dial, loading, frame, now, eng, anims, media, tree, inbox, rafQueue, obs>>

\* mutant of alreadySetUp: the singleton is not looked at
alreadySetUpNever(di) == FALSE

\* if (dialInstance): a dial is set up
alreadySetUp(di) == di.active

\* setupDial(): null when a dial is set up or there is no document; else the
\* dial is created at the current speed and appended to document.body
SetupDial ==
    /\ build = "lib"
    /\ IF alreadySetUp(dialInstance) \/ Top \notin tree
       THEN /\ dialInstance' = [dialInstance EXCEPT !.ret = "null"]
            /\ UNCHANGED dial
       ELSE /\ dialInstance' = [active |-> TRUE, body |-> dialInstance.body + 1,
                                ret |-> "element", open |-> TRUE]
            /\ dial' = [speed |-> OrOne(getSpeed(eng[Top])),
                        paused |-> getSpeed(eng[Top]) = 0]
    /\ last' = Call("setupDial", Top)
    /\ UNCHANGED <<build, realm, sync, api, loading, frame, now, eng, anims, media, tree, inbox, rafQueue, obs>>

\* shutdownDial(): nothing when no dial is set up; else the dial is destroyed
\* and removed from the document
ShutdownDial ==
    /\ build = "lib"
    /\ IF ~alreadySetUp(dialInstance)
       THEN /\ dialInstance' = [dialInstance EXCEPT !.ret = "none", !.open = FALSE]
            /\ UNCHANGED dial
       ELSE /\ dialInstance' = [active |-> FALSE, body |-> dialInstance.body - 1,
                                ret |-> "none", open |-> FALSE]
            /\ dial' = NoDial
    /\ last' = Call("shutdownDial", Top)
    /\ UNCHANGED <<build, realm, sync, api, loading, frame, now, eng, anims, media, tree, inbox, rafQueue, obs>>

\* isDialActive()
IsDialActive ==
    /\ build = "lib"
    /\ dialInstance' = [dialInstance EXCEPT !.ret = IF dialInstance.active THEN "true"
                                                       ELSE "false"]
    /\ last' = Call("isDialActive", Top)
    /\ UNCHANGED <<build, realm, sync, api, dial, loading, frame, now, eng, anims, media, tree, inbox, rafQueue, obs>>

InitApi ==
    /\ build = "lib"
    /\ now = Unit
    /\ eng = [d \in Docs |-> install(now)]
    /\ anims = [d \in Docs |-> <<>>]
    /\ media = [d \in Docs |-> <<>>]
    /\ tree = {Top}
    /\ inbox = [d \in Docs |-> <<>>]
    /\ rafQueue = <<>>
    /\ dial = NoDial
    /\ loading = {}
    /\ frame = NoFrame
    /\ api = [NoApi EXCEPT !.rec = TRUE]
    /\ dialInstance = NoElement
    /\ realm = NoRealm
    /\ sync = NoSync
    /\ obs = NoObs
    /\ last = NoCall

NextApi ==
    \/ \E m \in ApiSpeeds : SetSpeed(Top, m)
    \/ Pause
    \/ Play
    \/ Reset
    \/ GetSpeed
    \/ \E d \in TimerDelays : SetTimeout(d)
    \/ SetupDial
    \/ ShutdownDial
    \/ IsDialActive

SpecApi == InitApi /\ [][NextApi]_vars

(***************************************************************************)
(* Claims about the virtual clock (specification SpecClock).               *)
(***************************************************************************)
\* what the patched performance.now() returns in the current state
VNow == getVirtualTime(eng[Top], build, now)

\* C1. Continuity: a setSpeed/pause/play/reset call, with any multiplier
\* >= 0 including 0 and +Infinity, leaves the value of the virtual clock at
\* the real instant of the call unchanged: now() is the same immediately
\* before and immediately after the call.
C1_Continuity == [][last'.op = "call" => VNow' = VNow]_vars

\* C1 holds of the extension build, whose clock replaces Infinity by 1000.
C1_ContinuityExt == [][(build = "ext" /\ last'.op = "call") => VNow' = VNow]_vars

\* C2. Pause freeze: while the engine is paused, a read of the virtual clock
\* returns the value the previous read returned, however much real time has
\* passed, as long as no speed-changing call was made in between.
C2_PauseFreeze ==
    (eng[Top].isPaused /\ obs.kind = "now" /\ ~obs.since) => VNow = obs.val

\* C2 witness: paused, a read was made, real time has passed since, and no
\* call was made: the clock is about to be read a second time.
C2_Witness ==
    /\ eng[Top].isPaused /\ obs.kind = "now" /\ ~obs.since
    /\ now > obs.at

\* C3. Monotonic clock: whatever calls are made between two reads, a read of
\* the virtual clock never returns less than the read before it.
C3_Monotonic == obs.kind = "now" => Leq(obs.val, VNow)

\* C3 holds of the extension build.
C3_MonotonicExt == (build = "ext" /\ obs.kind = "now") => Leq(obs.val, VNow)

\* C4. Scaling: with a constant finite multiplier m > 0 and no call since a
\* value was handed out (by performance.now or to a frame callback), the
\* clock has advanced by exactly m times the real time elapsed since.
C4_Scaling ==
    (/\ obs.kind # "none" /\ ~obs.since
     /\ ~eng[Top].isPaused /\ IsFinite(eng[Top].currentSpeed))
    => /\ IsFinite(obs.val)
       /\ VNow = obs.val + Mul(now - obs.at, eng[Top].currentSpeed)

\* C4 holds of the extension build.
C4_ScalingExt ==
    (/\ build = "ext" /\ obs.kind # "none" /\ ~obs.since
     /\ ~eng[Top].isPaused /\ IsFinite(eng[Top].currentSpeed))
    => /\ IsFinite(obs.val)
       /\ VNow = obs.val + Mul(now - obs.at, eng[Top].currentSpeed)

(***************************************************************************)
(* Claims about the entity rate tracker (SpecAnim, SpecMedia).             *)
(***************************************************************************)
\* the last operation ran a reconciliation pass
AfterPass == last.op \in {"call", "frame", "message"}

\* C5. Rate composition: a non-excluded animation found with developer rate
\* r, whose rate no page script writes, has playbackRate r * m and recorded
\* developer rate r after every speed change, over any sequence of finite
\* multipliers m >= 0.
C5_RateComposition ==
    \A i \in DOMAIN anims[Top] :
        LET a == anims[Top][i]
        IN  (a.tracked /\ ~a.excluded /\ ~a.pageWrote /\ ~a.infPass)
            => /\ a.original = a.rate0
               /\ a.playbackRate = Mul(a.rate0, eng[Top].currentSpeed)

\* C5 witness: a speed change to 1/2 has just reconciled an untouched
\* animation of developer rate 2, which now runs at rate 1.
C5_Witness ==
    /\ last.op = "call" /\ eng[Top].currentSpeed = Half
    /\ \E i \in DOMAIN anims[Top] :
          LET a == anims[Top][i]
          IN  /\ a.tracked /\ ~a.excluded /\ ~a.pageWrote /\ ~a.infPass
              /\ a.rate0 = 2 * Unit /\ a.playbackRate = Unit

\* C6. Interference detection: when a page script wrote a rate X, different
\* from developerRate * m, to a tracked animation at a finite multiplier
\* m > 0, the next pass records X as the developer rate and leaves the
\* animation at rate X * m.
C6_Interference ==
    \A i \in DOMAIN anims[Top] :
        LET a == anims[Top][i]
        IN  (/\ AfterPass /\ a.detect # None
             /\ ~eng[Top].isPaused /\ IsFinite(eng[Top].currentSpeed))
            => /\ a.original = a.detect
               /\ a.playbackRate = Mul(a.detect, eng[Top].currentSpeed)

\* C7. Exclusion: on an animation or media element that is opted out the
\* engine never writes the rate, never calls pause, play or finish, never
\* seeks, and never creates a tracking entry, at any multiplier.
C7_Exclusion ==
    \A d \in Docs :
        /\ \A i \in DOMAIN anims[d] :
              LET a == anims[d][i]
              IN  a.excluded =>
                    /\ a.log = {} /\ ~a.tracked
                    /\ a.playState # "finished" /\ a.pauser # "engine"
                    /\ (~a.pageWrote => a.playbackRate = a.rate0)
        /\ \A i \in DOMAIN media[d] :
              LET m == media[d][i]
              IN  m.excluded =>
                    /\ m.log = {} /\ ~m.tracked
                    /\ ~m.atEnd /\ m.owed = 0 /\ ~m.wasPaused
                    /\ (~m.pageWrote => m.playbackRate = m.rate0)

\* C7 witness: the extension has just run the pass of setSpeed(Infinity) over
\* an opted-out animation and an opted-out media element.
C7_Witness ==
    /\ build = "ext" /\ last.op = "call" /\ eng[Top].currentSpeed = Infinity
    /\ \E i \in DOMAIN anims[Top] : anims[Top][i].excluded
    /\ \E i \in DOMAIN media[Top] : media[Top][i].excluded

\* C8. The engine calls play() on an animation only if the engine itself
\* paused it: no pass resumes an animation that a page script paused.
C8_NoForeignResume ==
    \A i \in DOMAIN anims[Top] : "playForeign" \notin anims[Top][i].log

\* the last operation was the call that ended an engine pause
Unpaused == last.op = "call" /\ last.wasPaused /\ ~eng[Top].isPaused

\* C9. Media resume ownership: a media element that was already paused when
\* the engine paused is not played by the pass that ends the engine pause; a
\* media element that the engine paused is played by that pass; and no other
\* pass plays a media element.
C9_ResumeAsClaimed ==
    \A i \in DOMAIN media[Top] :
        LET m == media[Top][i]
        IN  (AfterPass /\ ~m.excluded) =>
              /\ (Unpaused /\ m.heldAtPause) => "play" \notin m.log
              /\ (Unpaused /\ m.enginePaused) => "play" \in m.log
              /\ ~Unpaused => "play" \notin m.log

\* C9 as amended: the engine calls play() on a media element only in answer
\* to a pause() it made on that element during an engine pause (never twice
\* for one pause), and whenever the engine is unpaused at a finite multiplier
\* every such pause has been answered, by the pass that set that multiplier.
C9_ResumeOwnership ==
    \A i \in DOMAIN media[Top] :
        LET m == media[Top][i]
        IN  /\ ~m.unowed
            /\ m.owed \in {0, 1}
            /\ (~eng[Top].isPaused /\ IsFinite(eng[Top].currentSpeed)) => m.owed = 0

\* C9 witness: the call that ended an engine pause has just played a media
\* element that the engine had paused.
C9_Witness ==
    /\ Unpaused
    /\ \E i \in DOMAIN media[Top] :
          LET m == media[Top][i]
          IN  ~m.excluded /\ m.enginePaused /\ "play" \in m.log /\ m.owed = 0

(***************************************************************************)
(* Claims about the cross-frame synchronisation (SpecSync).                *)
(***************************************************************************)
\* every message posted has been delivered
Quiet == \A d \in Docs : inbox[d] = <<>>

\* the engine of document d has the speed and paused state of the top document
InSync(d) ==
    /\ eng[d].currentSpeed = eng[Top].currentSpeed
    /\ eng[d].isPaused = eng[Top].isPaused

\* C10. Downward propagation: once the messages of the top document's
\* setSpeed(m) are delivered, every descendant document has the speed and
\* paused state of the top document and each of its tracked entities, of
\* developer rate r, has rate r * m.
C10_AsClaimed ==
    Quiet => \A d \in tree \ {Top} :
        /\ InSync(d)
        /\ \A i \in DOMAIN anims[d] :
              anims[d][i].tracked =>
                 anims[d][i].playbackRate = Mul(anims[d][i].rate0, eng[Top].currentSpeed)
        /\ \A i \in DOMAIN media[d] :
              media[d][i].tracked =>
                 media[d][i].playbackRate = Mul(media[d][i].rate0, eng[Top].currentSpeed)

\* C10 as amended: once the messages of the top document's setSpeed(m) are
\* delivered, every descendant document has the speed and paused state of
\* the top document, each of its tracked animations has rate r * m, and each
\* of its tracked media elements has, when m > 0, the rate r * m clamped to
\* the range 0.0625 .. 16 (at m = 0 a media element is paused and its rate
\* is not written).
C10_Propagation ==
    Quiet => \A d \in tree \ {Top} :
        /\ InSync(d)
        /\ \A i \in DOMAIN anims[d] :
              anims[d][i].tracked =>
                 anims[d][i].playbackRate = Mul(anims[d][i].rate0, eng[Top].currentSpeed)
        /\ \A i \in DOMAIN media[d] :
              (media[d][i].tracked /\ eng[Top].currentSpeed > 0) =>
                 media[d][i].playbackRate =
                    MathMin(MediaMaxRate,
                            MathMax(MediaMinRate,
                                    Mul(media[d][i].rate0, eng[Top].currentSpeed)))

\* C10 witness: the nested frame has just applied the relayed message of the
\* top document's setSpeed(1/32), and no message is left in flight.
C10_Witness ==
    /\ Quiet /\ last.op = "message" /\ last.doc = 2
    /\ eng[Top].currentSpeed = Unit \div 32 /\ eng[2].currentSpeed = Unit \div 32
    /\ anims[2][1].tracked /\ media[2][1].tracked

(***************************************************************************)
(* Claims about frames attached late (SpecAttach).                         *)
(***************************************************************************)
\* the engine state a sync message stands for: its listener calls
\* setSpeed(paused ? 0 : speed)
Effect(msg) == [speed |-> IF msg.paused THEN 0 ELSE msg.speed, paused |-> msg.paused]

SameAgain(d) ==
    /\ inbox[d] # <<>>
    /\ Effect(Head(inbox[d])) =
          [speed |-> eng[d].currentSpeed, paused |-> eng[d].isPaused]

\* the last pass over document d wrote nothing and called nothing
NoWrites(d) ==
    /\ \A i \in DOMAIN anims[d] : anims[d][i].log = {}
    /\ \A i \in DOMAIN media[d] : media[d][i].log = {}

\* C12. Idempotent sync: when a document applies a sync message and then,
\* with nothing in between, the same message again, the second application
\* writes no rate, calls no pause, play or finish, and seeks nothing, at any
\* multiplier including 0 and Infinity.
C12_Idempotent ==
    [][(/\ last.op = "message" /\ last'.op = "message" /\ last'.doc = last.doc
        /\ SameAgain(last.doc))
       => NoWrites(last.doc)']_vars

\* C12 holds of the multipliers other than Infinity.
C12_IdempotentFinite ==
    [][(/\ last.op = "message" /\ last'.op = "message" /\ last'.doc = last.doc
        /\ SameAgain(last.doc) /\ IsFinite(eng[last.doc].currentSpeed))
       => NoWrites(last.doc)']_vars

(***************************************************************************)
(* Claims about exceptions in a pass (SpecThrow).                          *)
(***************************************************************************)
\* every entity of document d on which nothing throws carries the rate and
\* the pause state of the engine of d
Reconciled(d) ==
    /\ \A i \in DOMAIN anims[d] :
          LET a == anims[d][i]
          IN  (~a.excluded /\ ~a.throws) =>
                /\ a.tracked
                /\ a.playbackRate = Mul(a.original, eng[d].currentSpeed)
                /\ a.playState # (IF eng[d].isPaused THEN "running" ELSE "paused")
    /\ \A i \in DOMAIN media[d] :
          LET m == media[d][i]
          IN  (~m.excluded /\ ~m.throws) =>
                /\ m.tracked
                /\ IF eng[d].isPaused THEN m.paused
                   ELSE m.playbackRate = mediaRate(m.original, eng[d].currentSpeed, build)

\* C13. Error isolation: when an operation on one entity throws during a
\* pass, the other entities are reconciled by that pass all the same, and the
\* poll loop is scheduled for the next frame.
C13_ErrorIsolation ==
    (last.op \in {"call", "frame"} /\ Threw(Top)) =>
        /\ Reconciled(Top)
        /\ eng[Top].polling

\* when nothing throws, a pass reconciles every entity and the loop goes on
C13_NoThrow ==
    (last.op \in {"call", "frame"} /\ ~Threw(Top) /\ eng[Top].polling) => Reconciled(Top)

\* C14. Fail-safe outside a browser: in a realm without window, where
\* install() does nothing, setSpeed, pause, play, reset and getSpeed return
\* without throwing.
C14_FailSafe == Top \notin tree => last.op # "error"

(***************************************************************************)
(* Claims about when a speed takes effect (SpecEffect).                    *)
(***************************************************************************)
\* the developer rate of an entity no page script writes: the rate it was
\* created with, or, once a pass at Infinity has handled it, the one recorded
DevRate(ent) == IF ent.infPass THEN ent.original ELSE ent.rate0

\* animation a carries the rate and pause state of the engine state e
AnimationCarries(a, e) ==
    IF e.currentSpeed = Infinity THEN a.infPass
    ELSE /\ a.tracked
         /\ a.playbackRate = Mul(DevRate(a), e.currentSpeed)
         /\ a.playState # (IF e.isPaused THEN "running" ELSE "paused")

\* media element m carries the rate and pause state of the engine state e
MediaCarries(m, e) ==
    IF e.currentSpeed = Infinity THEN m.infPass
    ELSE /\ m.tracked
         /\ IF e.isPaused THEN m.paused
            ELSE /\ m.owed = 0
                 /\ m.playbackRate = mediaRate(DevRate(m), e.currentSpeed, build)

\* every entity of the top document that is not opted out carries the rate
\* and pause state of its engine
AllCarry ==
    /\ \A i \in DOMAIN anims[Top] :
          ~anims[Top][i].excluded => AnimationCarries(anims[Top][i], eng[Top])
    /\ \A i \in DOMAIN media[Top] :
          ~media[Top][i].excluded => MediaCarries(media[Top][i], eng[Top])

Queued == frame.cur \o rafQueue

\* every callback registered and not yet invoked is queued exactly once, and
\* nothing else is queued
NoneLost ==
    /\ \A cb \in RafCallbacks : InSeq(frame.reg, cb) <=> InSeq(Queued, cb)
    /\ \A i, j \in 1..Len(Queued) : Queued[i] = Queued[j] => i = j

\* C17. Frame callbacks across a pause: no callback is invoked while the
\* engine is paused; every callback pending when the pause began or
\* registered during it stays queued and is invoked once, not more, after the
\* engine is unpaused; and callbacks are invoked in registration order.
C17_AsClaimed ==
    /\ frame.inv # "none" => (~frame.paused /\ frame.inv = frame.first)
    /\ NoneLost

\* C17 as amended: as above, with the order of invocation being that of
\* registration as long as the engine was not paused from inside a frame.
C17_AcrossPause ==
    /\ frame.inv # "none" => (~frame.paused /\ (~frame.mid => frame.inv = frame.first))
    /\ NoneLost

\* C17 witness: two callbacks were held back by a pause that began between
\* frames; after the unpause the first registered has just been invoked and
\* the second is still queued.
C17_Witness ==
    /\ ~frame.mid /\ frame.inv = "f" /\ frame.first = "f"
    /\ frame.cur = <<"g">> /\ frame.reg = <<"g">>
    /\ eng[Top].virtualTime = eng[Top].pauseTime /\ eng[Top].pauseTime > 0


(***************************************************************************)
(* Claims about the multiplier +Infinity and the media rate range          *)
(* (SpecAnim, SpecMedia).                                                  *)
(***************************************************************************)
\* the last operation ran a pass at multiplier +Infinity
InfinityPass == AfterPass /\ eng[Top].currentSpeed = Infinity

\* C18. Infinity on animations: a pass at multiplier +Infinity calls finish()
\* on every animation that is not opted out, an animation whose finish()
\* throws has playbackRate 16 after the pass, and no exception escapes.
C18_InfinityAnimations ==
    InfinityPass =>
        /\ ~Threw(Top)
        /\ \A i \in DOMAIN anims[Top] :
              LET a == anims[Top][i]
              IN  ~a.excluded =>
                    /\ "finish" \in a.log
                    /\ a.unfinishable => a.playbackRate = MediaMaxRate

\* C19. Infinity on media: after a pass at multiplier +Infinity every media
\* element that is not opted out is either at its end and paused or, when
\* its duration is missing or not finite, at the fastest supported rate 16.
C19_InfinityMedia ==
    InfinityPass =>
        \A i \in DOMAIN media[Top] :
            LET m == media[Top][i]
            IN  ~m.excluded =>
                  IF m.hasDuration THEN m.atEnd /\ m.paused
                  ELSE m.playbackRate = MediaMaxRate

\* C20. Media clamp: at every finite multiplier above 0 the rate the engine
\* assigns to a media element lies in [0.0625, 16], whatever the developer
\* rate, and the assignment raises no error.
C20_MediaClamp ==
    (AfterPass /\ IsFinite(eng[Top].currentSpeed) /\ eng[Top].currentSpeed > 0) =>
        /\ ~Threw(Top)
        /\ \A i \in DOMAIN media[Top] :
              LET m == media[Top][i]
              IN  "rate" \in m.log =>
                    /\ Leq(MediaMinRate, m.playbackRate)
                    /\ Leq(m.playbackRate, MediaMaxRate)

(***************************************************************************)
(* Claims about the public API, the timers and the dial API (SpecApi).     *)
(***************************************************************************)
\* C21. getSpeed: getSpeed() returns the argument of the most recent
\* slowmo / setSpeed call, 0 after pause() and 1 after reset(), also for the
\* arguments 0, very small and +Infinity.
C21_GetSpeed ==
    (obs.kind = "getSpeed" /\ ~obs.since) =>
        /\ api.call = "setSpeed" => obs.val = api.arg
        /\ api.call = "pause" => obs.val = 0
        /\ api.call = "reset" => obs.val = Unit

\* C21 witness: getSpeed() has just returned +Infinity, the argument of the
\* setSpeed call that followed a pause().
C21_Witness ==
    /\ obs.kind = "getSpeed" /\ ~obs.since /\ obs.val = Infinity
    /\ api.call = "setSpeed" /\ api.arg = Infinity /\ api.prev = "pause"

\* C22. play() restores the previous speed: after setSpeed(m) with m > 0,
\* pause() and play(), getSpeed() returns m; play() yields 1 only when no
\* non-zero multiplier (other than 1) was ever set.
C22_PlayRestores ==
    (api.call = "play" /\ api.prev = "pause") =>
        getSpeed(eng[Top]) = (IF api.nonZero = 0 THEN Unit ELSE api.nonZero)

C24_ScaledDelays ==
    last.op = "timer" =>
        IF eng[Top].isPaused
        THEN IsFinite(api.handed) /\ api.handed > api.requested
        ELSE IsFinite(eng[Top].currentSpeed)
                => Mul(api.handed, eng[Top].currentSpeed) = api.requested

\* C25. Dial singleton: at most one dial exists; setupDial() returns an
\* element and appends it exactly when no dial is active, and null otherwise;
\* shutdownDial() does nothing when none is active; isDialActive() is true
\* exactly between a successful setupDial() and the next shutdownDial().
C25_DialSingleton ==
    /\ [](dialInstance.body <= 1)
    /\ [][/\ last'.op = "setupDial" =>
               /\ (dialInstance'.ret = "element") = ~dialInstance.active
               /\ (dialInstance'.ret # "element") = (dialInstance'.ret = "null")
               /\ dialInstance'.body =
                     dialInstance.body + (IF dialInstance.active THEN 0 ELSE 1)
          /\ (last'.op = "shutdownDial" /\ ~dialInstance.active) =>
               (dialInstance'.body = dialInstance.body /\ dial' = dial)
          /\ last'.op = "isDialActive" =>
               (dialInstance'.ret = "true") = dialInstance.open]_vars

\* C25 witness: a second setupDial() has just returned null, one dial being
\* in the document.
C25_Witness ==
    /\ last.op = "setupDial" /\ dialInstance.ret = "null"
    /\ dialInstance.active /\ dialInstance.body = 1

(***************************************************************************)
(* Further claims about the virtual clock and the tracker (SpecClock,      *)
(* SpecAnim, SpecMedia).                                                   *)
(***************************************************************************)
\* C26. Finite virtual time under +Infinity: every value the virtual clock
\* returns and every timestamp handed to a frame callback is a finite
\* number, whatever multipliers were set, +Infinity among them.
C26_FiniteTime ==
    obs.kind \in {"now", "frame"} => IsFinite(obs.val)

\* C27. Developer rate survives +Infinity: an animation that is not opted
\* out, of developer rate r, whose rate no page script writes, and that a
\* pass at +Infinity has handled (its finish() succeeding or throwing), has
\* playbackRate r * m and recorded developer rate r after a call that sets a
\* finite multiplier m > 0.
C27_RateSurvivesInfinity ==
    \A i \in DOMAIN anims[Top] :
        LET a == anims[Top][i]
        IN  (/\ last.op = "call" /\ a.infPass /\ ~a.excluded /\ ~a.pageWrote
             /\ IsFinite(eng[Top].currentSpeed) /\ eng[Top].currentSpeed > 0)
            => /\ a.tracked /\ a.original = a.rate0
               /\ a.playbackRate = Mul(a.rate0, eng[Top].currentSpeed)

\* C28. Tracked-entry invariant: right after a pass in which the engine
\* wrote the rate of a tracked animation or media element, the applied value
\* of its entry equals its recorded developer rate times the multiplier.
C28_TrackedEntry ==
    AfterPass =>
        /\ \A i \in DOMAIN anims[Top] :
              LET a == anims[Top][i]
              IN  (a.tracked /\ "rate" \in a.log)
                  => a.applied = Mul(a.original, eng[Top].currentSpeed)
        /\ \A i \in DOMAIN media[Top] :
              LET m == media[Top][i]
              IN  (m.tracked /\ "rate" \in m.log)
                  => m.applied = Mul(m.original, eng[Top].currentSpeed)

\* C29. Ledger matches reality: at the end of every pass at a finite
\* multiplier the applied value of the entry of every tracked animation that
\* is not opted out, and of every such media element while the engine is not
\* paused, equals the current playbackRate of the entity.
C29_LedgerMatches ==
    (AfterPass /\ IsFinite(eng[Top].currentSpeed)) =>
        /\ \A i \in DOMAIN anims[Top] :
              LET a == anims[Top][i]
              IN  (a.tracked /\ ~a.excluded) => a.applied = a.playbackRate
        /\ \A i \in DOMAIN media[Top] :
              LET m == media[Top][i]
              IN  (m.tracked /\ ~m.excluded /\ ~eng[Top].isPaused)
                  => m.applied = m.playbackRate

\* C30. Monotonic frame timestamps: whatever setSpeed calls are made, inside
\* or between frame callbacks, the timestamp handed to a frame callback is
\* never smaller than the one handed to the invocation before it, nor than a
\* value the virtual clock returned earlier.
C30_MonotonicFrames ==
    [][(last'.op = "wrapper" /\ frame'.inv # "none" /\ obs.kind # "none")
          => Leq(obs.val, obs'.val)]_vars

\* C31. Pause enforcement on media: after every pass that runs while the
\* engine is paused no media element that is not opted out is playing,
\* whatever page scripts or the user did to it since the pause began.
C31_PauseEnforced ==
    (AfterPass /\ eng[Top].isPaused) =>
        \A i \in DOMAIN media[Top] :
            LET m == media[Top][i]
            IN  ~m.excluded => m.paused

\* C32. Cancellation survives a pause: a callback that the page cancelled
\* with the handle the patched requestAnimationFrame returned for it is not
\* invoked afterwards, also when paused frames elapsed between the request
\* and the cancellation.
C32_CancelSurvives ==
    frame.inv # "none" => frame.inv \notin frame.cancelled

RECURSIVE SumPolls(_)
SumPolls(S) ==
    IF S = {} THEN 0
    ELSE LET c == CHOOSE x \in S : TRUE
         IN  realm.copy[c].polls + SumPolls(S \ {c})

AnyInstalled == \E c \in Copies : realm.copy[c].isInstalled

C34_SecondCopyOnly ==
    [][(/\ last'.op = "realmRead"
        /\ obs.kind = "now"
        /\ ~obs.since
        /\ Len(realm.clock) = 2)
          => Sub(obs'.val, obs.val)
               = Mul(now - obs.at, realm.copy[Head(realm.clock)].e.currentSpeed)]_vars

\* C35. Only the top document originates sync messages: a step of a frame
\* queues a message for a window only while the frame's listener handles a
\* message, and then the message handled, for its own child frames only; a
\* setSpeed call made in a frame queues nothing.
C35_OnlyTopOriginates ==
    [][\A d \in Docs \ {Top} :
          /\ (last'.op = "call" /\ last'.doc = d) => inbox' = inbox
          /\ (last'.op = "message" /\ last'.doc = d) =>
                 \A c \in Docs :
                    \/ c = d /\ inbox'[c] = Tail(inbox[c])
                    \/ c # d /\ inbox'[c] = inbox[c]
                    \/ c # d /\ Parent(c) = d /\ inbox'[c] = Append(inbox[c], Head(inbox[d]))]_vars

C35_Witness ==
    /\ last.op = "message"
    /\ last.doc = 1
    /\ inbox[2] # <<>>
    /\ eng[2].currentSpeed # Unit
    /\ eng[2].currentSpeed # eng[1].currentSpeed

\* C36. No amplification: every frame's listener handles one message for each
\* setSpeed call of the top document, and none beyond: what a frame handled
\* and what is queued for it add up to the calls of the top document (for a
\* frame of the top document) or to what its parent handled (deeper frames).
C36_NoAmplification ==
    \A c \in Docs \ {Top} :
        sync.got[c] + Len(inbox[c])
            = IF Parent(c) = Top THEN sync.calls ELSE sync.got[Parent(c)]

C36_Witness ==
    /\ Quiet
    /\ sync.calls = 1
    /\ \A c \in Docs \ {Top} : sync.got[c] = 1

TopAsDial ==
    /\ eng[Top].currentSpeed = Effect(loadMessage(dial)).speed
    /\ eng[Top].isPaused = Effect(loadMessage(dial)).paused

\* C37. Top state is authoritative: handling a sync message delivered to the
\* window of the top document changes neither the speed nor the paused state
\* of its engine, and leaves the engine in the state that the top document
\* sends to newly loaded frames.
C37_TopAuthoritative ==
    [][last'.op = "messageTop"
          => /\ eng'[Top].currentSpeed = eng[Top].currentSpeed
             /\ eng'[Top].isPaused = eng[Top].isPaused
             /\ TopAsDial']_vars

\* C38. Order-insensitive delivery: once every sync message the top document
\* sent has been handled by the frame it was sent to, in whatever order and
\* however often, the frame of the top document has the speed and the paused
\* state of the top document.
C38_OrderInsensitive ==
    (inbox[1] = <<>> /\ last.op = "message") => InSync(1)

\* C39. Depth-agnostic late attach: when the load event of a frame attached
\* to a frame (not to the top document) has fired, after the speed of that
\* parent frame changed, a sync message standing for the parent's current
\* speed and paused state is queued for the new frame.
C39_DepthAgnostic ==
    LET d == last.doc
        p == Parent(last.doc)
    IN  (/\ last.op = "load"
         /\ p # Top
         /\ eng[p].currentSpeed # Unit)
           => \E i \in DOMAIN inbox[d] :
                 /\ Effect(inbox[d][i]).speed = eng[p].currentSpeed
                 /\ Effect(inbox[d][i]).paused = eng[p].isPaused

\* C40. Startup synchronization: with no call on the top document after its
\* startup broadcast, every iframe of the top document that was in the page
\* when the top document started comes to run its content script and to hold
\* the speed and paused state of the top document, whether its listener was
\* registered before or after the startup broadcast.
C40_StartupSync ==
    (~sync.timer) ~> (\A c \in Children(Top) : c \in tree /\ InSync(c))

====
